---- MODULE Spec2Model ----
(***************************************************************************)
(* Resume-Dashboard: the candidate scoring engine (utils/tfidfUtils.ts)    *)
(* and the skill-normalization engine (utils/skillNormalizationUtils.ts,   *)
(* kept as src/unnamed/part_003).                                          *)
(*                                                                         *)
(* A JavaScript string is a sequence of one-character strings, so that     *)
(* toLowerCase, the regular-expression replacements, split and includes    *)
(* are computed character by character.  A JavaScript number is a record   *)
(* [k, n, d]: the exact rational n/d (k = "num"), NaN (k = "nan") or       *)
(* +Infinity (k = "inf"); arithmetic is exact, IEEE rounding is not        *)
(* modelled.                                                               *)
(*                                                                         *)
(* The functions of the two engines are pure.  Each gets a specification   *)
(* whose initial states draw its arguments from bounded sets and whose     *)
(* actions apply it: SpecScore (tfidfUtils), SpecSimilarity                *)
(* (getSkillSimilarityScore), SpecCluster (groupSimilarSkills) and         *)
(* SpecNormalize (createSkillNormalizationMapping, normalizeSkill).  So do *)
(* the functions of utils/filterUtils.ts (kept at the end of               *)
(* src/src/components/dashboard/CandidatesList.tsx): SpecFilter            *)
(* (filterCandidates) and SpecSort (sortCandidates), and                   *)
(* categorizeExperience of data/candidatesData.ts: SpecExperience.         *)
(*                                                                         *)
(* The Dashboard component (src/unnamed/part_004) has state.  SpecLoad is  *)
(* the loading of the data over several page sessions, from the network or *)
(* from the browser storage, where a write may fail and the data of the    *)
(* server may grow between sessions.  SpecDashboard is one session: the    *)
(* load, the changes of filters, sort option and reference location, and   *)
(* the debounced filter effect, the pagination and the page buttons of     *)
(* CandidatesList; a pending setTimeout is a record of the values its      *)
(* closure holds.  SpecPanel is the FilterPanel component                  *)
(* (src/src/components/dashboard/FilterPanel.tsx) under a dashboard        *)
(* without candidates: its inputs, its debounce hook, its effects and its  *)
(* timeouts, with time in steps of TimeStep milliseconds.                  *)
(*                                                                         *)
(* The variables of the other specifications stay at their idle values.    *)
(***************************************************************************)
EXTENDS Integers, Sequences, FiniteSets, TLC

VARIABLES
    pc,              \* "start" before an operation ran, then the operation's label
    candidate,       \* scoring: the Candidate being scored
    jobRequirement,  \* scoring: the job-requirement text
    matchScore,      \* scoring: result of calculateJobRequirementMatchScore
    totalScore,      \* scoring: result of calculateTotalCandidateScore
    tfTerm,          \* scoring: the term handed to calculateTF / calculateTFIDF
    tf,              \* scoring: result of calculateTF
    tfidf,           \* scoring: result of calculateTFIDF
    skillA,          \* similarity: first argument of getSkillSimilarityScore
    skillB,          \* similarity: second argument of getSkillSimilarityScore
    similarity,      \* similarity: result of getSkillSimilarityScore
    skillList,       \* clustering: the skills argument of groupSimilarSkills
    threshold,       \* clustering: the similarityThreshold argument
    clusters,        \* clustering: result of groupSimilarSkills
    candidates,      \* normalization: the Candidate[] of the dashboard
    originalToNormalizedMap, \* normalization: result of createSkillNormalizationMapping
    rawSkill,        \* normalization: the skill handed to normalizeSkill
    normalizedSkill, \* normalization: result of normalizeSkill
    filterInput,     \* filtering: the candidates argument of filterCandidates
    filterSpec,      \* filtering: the filters argument
    filterOutput,    \* filtering: result of filterCandidates
    sortInput,       \* sorting: the candidates argument of sortCandidates
    sortOrder,       \* sorting: the sortOption argument
    sortReference,   \* sorting: the referenceLocation argument
    sortOutput,      \* sorting: result of sortCandidates
    sortError,       \* sorting: the error that sortCandidates raised, "" for none
    experienceMonths, \* experience: the argument of categorizeExperience
    experienceLevel, \* experience: result of categorizeExperience
    localStorage,    \* loading: the six cache entries of the browser storage
    now,             \* loading: Date.now(), in milliseconds
    remoteData,      \* loading: what fetchCandidatesData resolves to
    loadedFrom,      \* loading: the path loadData took in this page session
    groupedSkillsMap,   \* dashboard state: representative -> variants
    skillsList,         \* dashboard state: the representatives
    locationsList,      \* dashboard state: the locations with coordinates
    skillCounts,        \* dashboard state: skill -> number of candidates
    isCacheLoaded,      \* dashboard state: loadData has finished
    filteredCandidates, \* dashboard state: the displayed list
    filters,            \* dashboard state: the FilterType of the filter panel
    sortOption,         \* dashboard state: the SortOption
    userLocation,       \* dashboard state: the reference location, if any
    timers,             \* dashboard: the pending setTimeout callbacks
    burst,              \* dashboard: changes that the pending timeout absorbed
    recomputations,     \* dashboard: filter passes since the last change
    pagination,         \* dashboard state: currentPage, itemsPerPage, totalPages
    paginatedCandidates, \* dashboard state: the candidates of the current page
    localFilters,       \* filter panel state: the FilterType of the inputs
    localJobRequirement, \* filter panel state: the text of the requirement box
    debouncedValue,     \* filter panel: the state of useDebounce
    isJobRequirementUpdating, \* filter panel state: the apply button is busy
    panelTimers,        \* filter panel: the pending setTimeout callbacks
    lastInput           \* filter panel: the last event of the user

scoreVars == <<candidate, jobRequirement, matchScore, totalScore, tfTerm, tf, tfidf>>
similarityVars == <<skillA, skillB, similarity>>
clusterVars == <<skillList, threshold, clusters>>
normalizeVars == <<candidates, originalToNormalizedMap, rawSkill, normalizedSkill>>
filterVars == <<filterInput, filterSpec, filterOutput>>
sortVars == <<sortInput, sortOrder, sortReference, sortOutput, sortError>>
experienceVars == <<experienceMonths, experienceLevel>>
loadVars == <<localStorage, now, remoteData, loadedFrom>>
dashboardVars ==
    <<groupedSkillsMap, skillsList, locationsList, skillCounts, isCacheLoaded,
      filteredCandidates, filters, sortOption, userLocation, timers, burst,
      recomputations, pagination, paginatedCandidates>>
panelVars ==
    <<localFilters, localJobRequirement, debouncedValue, isJobRequirementUpdating,
      panelTimers, lastInput>>
vars == <<pc, scoreVars, similarityVars, clusterVars, normalizeVars, filterVars, sortVars,
          experienceVars, loadVars, dashboardVars, panelVars>>

(***************************************************************************)
(* Characters and strings                                                  *)
(***************************************************************************)
LowerLetters == <<"a","b","c","d","e","f","g","h","i","j","k","l","m",
                  "n","o","p","q","r","s","t","u","v","w","x","y","z">>
UpperLetters == <<"A","B","C","D","E","F","G","H","I","J","K","L","M",
                  "N","O","P","Q","R","S","T","U","V","W","X","Y","Z">>
Digits == {"0","1","2","3","4","5","6","7","8","9"}

Range(s) == {s[i] : i \in DOMAIN s}

\* \s of a JavaScript regular expression (the members that occur in the inputs)
IsSpace(c) == c \in {" ", "\t", "\n"}

\* \w of a JavaScript regular expression: [A-Za-z0-9_]
IsWordChar(c) == c \in Range(LowerLetters) \cup Range(UpperLetters) \cup Digits \cup {"_"}

LowerChar(c) ==
    IF c \in Range(UpperLetters)
    THEN LowerLetters[CHOOSE i \in DOMAIN UpperLetters : UpperLetters[i] = c]
    ELSE c

UpperChar(c) ==
    IF c \in Range(LowerLetters)
    THEN UpperLetters[CHOOSE i \in DOMAIN LowerLetters : LowerLetters[i] = c]
    ELSE c

\* String.prototype.toLowerCase / toUpperCase
toLowerCase(s) == [i \in DOMAIN s |-> LowerChar(s[i])]
toUpperCase(s) == [i \in DOMAIN s |-> UpperChar(s[i])]

\* String.prototype.includes
includes(s, sub) ==
    \E i \in 0..(Len(s) - Len(sub)) : SubSeq(s, i + 1, i + Len(sub)) = sub

RECURSIVE RemoveNonWord(_)
\* s.replace(/[^\w\s]/g, '')
RemoveNonWord(s) ==
    IF s = <<>> THEN <<>>
    ELSE IF IsWordChar(Head(s)) \/ IsSpace(Head(s))
         THEN <<Head(s)>> \o RemoveNonWord(Tail(s))
         ELSE RemoveNonWord(Tail(s))

RECURSIVE SplitAcc(_, _, _)
\* the pieces of s between separators; cur is the piece being read.
\* runs = TRUE: a maximal run of white space is one separator (split(/\s+/));
\* runs = FALSE: every single " " is a separator (split(' ')).
SplitAcc(s, cur, runs) ==
    IF s = <<>> THEN <<cur>>
    ELSE IF runs /\ IsSpace(Head(s))
         THEN IF Len(s) > 1 /\ IsSpace(s[2])
              THEN SplitAcc(Tail(s), cur, runs)
              ELSE <<cur>> \o SplitAcc(Tail(s), <<>>, runs)
    ELSE IF ~runs /\ Head(s) = " "
         THEN <<cur>> \o SplitAcc(Tail(s), <<>>, runs)
    ELSE SplitAcc(Tail(s), Append(cur, Head(s)), runs)

\* s.split(/\s+/): "" gives [""], leading and trailing white space give "" pieces
SplitWhitespace(s) == SplitAcc(s, <<>>, TRUE)

\* s.split(' ')
SplitSpace(s) == SplitAcc(s, <<>>, FALSE)

RECURSIVE Concat(_)
\* the concatenation of a sequence of sequences (flatMap, push(...xs))
Concat(ss) == IF ss = <<>> THEN <<>> ELSE Head(ss) \o Concat(Tail(ss))

(***************************************************************************)
(* Numbers                                                                 *)
(***************************************************************************)
RECURSIVE Gcd(_, _)
Gcd(a, b) == IF b = 0 THEN a ELSE Gcd(b, a % b)

Abs(x) == IF x < 0 THEN -x ELSE x

NaN == [k |-> "nan", n |-> 0, d |-> 1]
Infinity == [k |-> "inf", n |-> 1, d |-> 1]

\* the number n/d in lowest terms, d > 0
Rat(n, d) ==
    LET g == Gcd(Abs(n), d)
    IN  [k |-> "num", n |-> n \div g, d |-> d \div g]

Num(i) == Rat(i, 1)

IsNum(x) == x.k = "num"
IsNaN(x) == x.k = "nan"

\* x + y
Add(x, y) ==
    IF IsNaN(x) \/ IsNaN(y) THEN NaN
    ELSE IF ~IsNum(x) \/ ~IsNum(y) THEN Infinity
    ELSE Rat(x.n * y.d + y.n * x.d, x.d * y.d)

\* x * y (the model has no negative numbers)
Mul(x, y) ==
    IF IsNaN(x) \/ IsNaN(y) THEN NaN
    ELSE IF ~IsNum(x) THEN (IF y.n = 0 THEN NaN ELSE Infinity)
    ELSE IF ~IsNum(y) THEN (IF x.n = 0 THEN NaN ELSE Infinity)
    ELSE Rat(x.n * y.n, x.d * y.d)

\* x / y: 0/0 is NaN, a positive number over 0 is Infinity
Div(x, y) ==
    IF IsNaN(x) \/ IsNaN(y) THEN NaN
    ELSE IF ~IsNum(x) THEN (IF IsNum(y) THEN Infinity ELSE NaN)
    ELSE IF ~IsNum(y) THEN Num(0)
    ELSE IF y.n = 0 THEN (IF x.n = 0 THEN NaN ELSE Infinity)
    ELSE Rat(x.n * y.d, x.d * y.n)

\* x <= y; every comparison with NaN is false
Leq(x, y) ==
    /\ ~IsNaN(x) /\ ~IsNaN(y)
    /\ \/ ~IsNum(y)
       \/ IsNum(x) /\ x.n * y.d <= y.n * x.d

\* Math.min(x, y)
MathMin(x, y) ==
    IF IsNaN(x) \/ IsNaN(y) THEN NaN
    ELSE IF Leq(x, y) THEN x ELSE y

\* Math.round(x): the integer nearest to x, halves rounded up
MathRound(x) ==
    IF IsNum(x) THEN Num((2 * x.n + x.d) \div (2 * x.d)) ELSE x

IsInteger(x) == IsNum(x) /\ x.d = 1

(***************************************************************************)
(* Optional fields: an absent (undefined) field is None, a present one     *)
(* Some(v).  An empty string is falsy, like an absent one.                 *)
(***************************************************************************)
None == <<>>
Some(v) == <<v>>
IsPresent(o) == Len(o) = 1
\* (o || [])
OrEmpty(o) == IF IsPresent(o) THEN o[1] ELSE <<>>
\* truthiness of a string
Truthy(s) == Len(s) > 0

(***************************************************************************)
(* utils/tfidfUtils.ts                                                     *)
(***************************************************************************)
\* the number of words of document equal to term, case-insensitively
CountTerm(term, document) ==
    Cardinality({i \in DOMAIN document : toLowerCase(document[i]) = toLowerCase(term)})

calculateTF(term, document) ==
    Div(Num(CountTerm(term, document)), Num(Len(document)))

\* Math.log of the ratios a corpus of at most two documents produces,
\* to six decimals
MathLog(x) ==
    CASE x = Rat(1, 1) -> Num(0)
      [] x = Rat(2, 1) -> Rat(693147, 1000000)
      [] x = Rat(3, 2) -> Rat(405465, 1000000)
      [] x = Rat(3, 1) -> Rat(1098612, 1000000)

calculateIDF(term, documents) ==
    LET numDocumentsWithTerm ==
            Cardinality({j \in DOMAIN documents : CountTerm(term, documents[j]) > 0})
    IN  Add(MathLog(Div(Num(Len(documents) + 1), Num(numDocumentsWithTerm + 1))), Num(1))

calculateTFIDF(term, document, documents) ==
    Mul(calculateTF(term, document), calculateIDF(term, documents))

\* the words longer than 3 characters of text.toLowerCase().split(/\s+/)
LongWords(text) ==
    SelectSeq(SplitWhitespace(toLowerCase(text)), LAMBDA word : Len(word) > 3)

\* what one work-experience entry pushes on a document; the responsibilities
\* only when withResponsibilities
ExperienceWords(exp, withResponsibilities) ==
    (IF IsPresent(exp.skills)
     THEN [i \in DOMAIN exp.skills[1] |-> toLowerCase(exp.skills[1][i])] ELSE <<>>)
    \o (IF Truthy(exp.title) THEN SplitWhitespace(toLowerCase(exp.title)) ELSE <<>>)
    \o (IF Truthy(exp.company) THEN SplitWhitespace(toLowerCase(exp.company)) ELSE <<>>)
    \o (IF withResponsibilities /\ IsPresent(exp.responsibilities)
        THEN Concat([i \in DOMAIN exp.responsibilities[1] |->
                        IF Truthy(exp.responsibilities[1][i])
                        THEN LongWords(exp.responsibilities[1][i]) ELSE <<>>])
        ELSE <<>>)

\* what one project pushes on a document
ProjectWords(project) ==
    (IF IsPresent(project.skills)
     THEN [i \in DOMAIN project.skills[1] |-> toLowerCase(project.skills[1][i])] ELSE <<>>)
    \o (IF Truthy(project.name) THEN SplitWhitespace(toLowerCase(project.name)) ELSE <<>>)
    \o (IF Truthy(project.description) THEN LongWords(project.description) ELSE <<>>)

\* the document of one candidate
CandidateWords(c, withResponsibilities) ==
    (IF IsPresent(c.work_experience)
     THEN Concat([i \in DOMAIN c.work_experience[1] |->
                     ExperienceWords(c.work_experience[1][i], withResponsibilities)])
     ELSE <<>>)
    \o (IF IsPresent(c.projects)
        THEN Concat([i \in DOMAIN c.projects[1] |-> ProjectWords(c.projects[1][i])])
        ELSE <<>>)

createCandidateDocuments(cands) ==
    [i \in DOMAIN cands |-> CandidateWords(cands[i], TRUE)]

stopWords ==
    { <<"t","h","e">>, <<"a","n","d">>, <<"f","o","r">>, <<"w","i","t","h">>,
      <<"w","a","s">>, <<"t","h","a","t">>, <<"t","h","i","s">>, <<"a","r","e">>,
      <<"h","a","v","e">>, <<"f","r","o","m">>, <<"n","o","t">>, <<"h","a","s">>,
      <<"w","e","r","e">>, <<"t","h","e","y">>, <<"t","h","e","i","r">>,
      <<"b","e","e","n">>, <<"w","h","o">>, <<"w","h","a","t">>, <<"w","h","e","n">>,
      <<"w","h","e","r","e">>, <<"w","h","y">>, <<"h","o","w">>, <<"a","l","l">>,
      <<"a","n","y">>, <<"b","o","t","h">>, <<"e","a","c","h">>, <<"m","o","r","e">>,
      <<"m","o","s","t">>, <<"s","o","m","e">>, <<"s","u","c","h">> }

processText(text) ==
    LET cleanedText == RemoveNonWord(toLowerCase(text))
        words == SelectSeq(SplitWhitespace(cleanedText), LAMBDA word : Len(word) > 2)
    IN  SelectSeq(words, LAMBDA word : word \notin stopWords)

processJobRequirement(req) ==
    IF ~Truthy(req) THEN <<>>
    ELSE SelectSeq(processText(req), LAMBDA word : Len(word) > 3)

\* the candidateDocument local of calculateJobRequirementMatchScore: the
\* document without the responsibilities
candidateDocument(c) == CandidateWords(c, FALSE)

\* the candidateSkills local: every skill of every work experience and project
candidateSkills(c) ==
    Concat([i \in DOMAIN OrEmpty(c.work_experience) |->
               OrEmpty(OrEmpty(c.work_experience)[i].skills)])
    \o Concat([i \in DOMAIN OrEmpty(c.projects) |->
                  OrEmpty(OrEmpty(c.projects)[i].skills)])

exactSkillMatch(c, term) ==
    \E i \in DOMAIN candidateSkills(c) :
        /\ Truthy(candidateSkills(c)[i])
        /\ includes(toLowerCase(candidateSkills(c)[i]), term)

\* what the forEach over the requirement terms adds for one term
TermScore(c, term) ==
    IF exactSkillMatch(c, term) THEN Rat(3, 2)
    ELSE Mul(calculateTFIDF(term, candidateDocument(c), createCandidateDocuments(<<c>>)),
             Rat(1, 2))

RECURSIVE SumTerms(_, _)
\* matchScore after the forEach over terms, starting from 0
SumTerms(c, terms) ==
    IF terms = <<>> THEN Num(0)
    ELSE Add(SumTerms(c, SubSeq(terms, 1, Len(terms) - 1)), TermScore(c, terms[Len(terms)]))

calculateJobRequirementMatchScore(c, req) ==
    IF ~Truthy(req) THEN Num(0)
    ELSE LET jobRequirementTerms == processJobRequirement(req)
         IN  MathMin(Div(SumTerms(c, jobRequirementTerms),
                         Mul(Num(Len(jobRequirementTerms)), Rat(3, 2))),
                     Num(1))

calculateTotalCandidateScore(c, req) ==
    LET skillMatchScore == Mul(calculateJobRequirementMatchScore(c, req), Num(40))
        expScore == MathMin(Mul(Num(c.total_we_months), Rat(1, 2)), Num(30))
        projectsCount == IF IsPresent(c.projects) THEN Len(c.projects[1]) ELSE 0
        projectScore == MathMin(Mul(Num(projectsCount), Rat(15, 2)), Num(30))
    IN  MathRound(Add(Add(skillMatchScore, expScore), projectScore))

(***************************************************************************)
(* utils/skillNormalizationUtils.ts                                        *)
(*                                                                         *)
(* A similarity score is a record [rat, coef, rad]: the real number        *)
(* rat + coef * sqrt(rad), with rat, coef and rad exact rationals, so that *)
(* the square roots of cosineSimilarity are compared exactly.              *)
(***************************************************************************)
Neg(x) == IF IsNum(x) THEN Rat(-x.n, x.d) ELSE x
Sub(x, y) == Add(x, Neg(y))

IsSquare(n) == \E r \in 0..n : r * r = n
IntSqrt(n) == CHOOSE r \in 0..n : r * r = n

Surd(rat, coef, rad) == [rat |-> rat, coef |-> coef, rad |-> rad]
Exact(x) == Surd(x, Num(0), Num(0))

\* Math.sqrt of a non-negative rational
MathSqrt(x) ==
    IF IsSquare(x.n) /\ IsSquare(x.d)
    THEN Exact(Rat(IntSqrt(x.n), IntSqrt(x.d)))
    ELSE Surd(Num(0), Num(1), x)

\* x >= t and x <= t for a score x and a rational t
SurdGeq(x, t) ==
    LET rest == Sub(t, x.rat)
    IN  \/ rest.n <= 0
        \/ Leq(Mul(rest, rest), Mul(Mul(x.coef, x.coef), x.rad))
SurdLeq(x, t) ==
    LET rest == Sub(t, x.rat)
    IN  /\ rest.n >= 0
        /\ Leq(Mul(Mul(x.coef, x.coef), x.rad), Mul(rest, rest))

\* every character that is neither \w nor \s replaced by a space
PunctuationToSpace(s) ==
    [i \in DOMAIN s |-> IF IsWordChar(s[i]) \/ IsSpace(s[i]) THEN s[i] ELSE " "]

RECURSIVE CollapseSpaces(_)
\* s.replace(/\s+/g, ' ')
CollapseSpaces(s) ==
    IF s = <<>> THEN <<>>
    ELSE IF IsSpace(Head(s))
         THEN IF Len(s) > 1 /\ IsSpace(s[2])
              THEN CollapseSpaces(Tail(s))
              ELSE <<" ">> \o CollapseSpaces(Tail(s))
    ELSE <<Head(s)>> \o CollapseSpaces(Tail(s))

RECURSIVE TrimStart(_)
TrimStart(s) ==
    IF s # <<>> /\ IsSpace(Head(s)) THEN TrimStart(Tail(s)) ELSE s

RECURSIVE TrimEnd(_)
TrimEnd(s) ==
    IF s # <<>> /\ IsSpace(s[Len(s)]) THEN TrimEnd(SubSeq(s, 1, Len(s) - 1)) ELSE s

\* String.prototype.trim
trim(s) == TrimEnd(TrimStart(s))

preprocessText(text) ==
    trim(CollapseSpaces(PunctuationToSpace(toLowerCase(text))))

Min2(x, y) == IF x <= y THEN x ELSE y
Max2(x, y) == IF x >= y THEN x ELSE y

RECURSIVE LevRow(_, _, _, _, _)
\* row j of the matrix, from row j-1 (prev); cur holds matrix[j][0..Len(cur)-1]
LevRow(a, b, j, prev, cur) ==
    IF Len(cur) = Len(a) + 1 THEN cur
    ELSE LET i == Len(cur)
             substitutionCost == IF a[i] = b[j] THEN 0 ELSE 1
         IN  LevRow(a, b, j, prev,
                    Append(cur, Min2(Min2(cur[i] + 1, prev[i + 1] + 1),
                                     prev[i] + substitutionCost)))

RECURSIVE LevRows(_, _, _, _)
\* row Len(b) of the matrix, prev being row j-1
LevRows(a, b, j, prev) ==
    IF j > Len(b) THEN prev
    ELSE LevRows(a, b, j + 1, LevRow(a, b, j, prev, <<j>>))

levenshteinDistance(a, b) ==
    LevRows(a, b, 1, [i \in 1..(Len(a) + 1) |-> i - 1])[Len(a) + 1]

jaccardSimilarity(a, b) ==
    LET setA == Range(SplitSpace(a))
        setB == Range(SplitSpace(b))
    IN  IF Cardinality(setA) = 0 /\ Cardinality(setB) = 0 THEN Num(1)
        ELSE Div(Num(Cardinality(setA \cap setB)), Num(Cardinality(setA \cup setB)))

\* the number of occurrences of word in words
Occurrences(word, words) == Cardinality({i \in DOMAIN words : words[i] = word})

RECURSIVE SumOver(_, _)
\* the sum of f[w] over the words of the set ws
SumOver(ws, f) ==
    IF ws = {} THEN 0
    ELSE LET w == CHOOSE x \in ws : TRUE
         IN  f[w] + SumOver(ws \ {w}, f)

cosineSimilarity(a, b) ==
    LET wordsA == SplitSpace(a)
        wordsB == SplitSpace(b)
        uniqueWords == Range(wordsA) \cup Range(wordsB)
        vectorA == [w \in uniqueWords |-> Occurrences(w, wordsA)]
        vectorB == [w \in uniqueWords |-> Occurrences(w, wordsB)]
        dotProduct == SumOver(uniqueWords, [w \in uniqueWords |-> vectorA[w] * vectorB[w]])
        \* magnitudeA and magnitudeB before Math.sqrt
        squareA == SumOver(uniqueWords, [w \in uniqueWords |-> vectorA[w] * vectorA[w]])
        squareB == SumOver(uniqueWords, [w \in uniqueWords |-> vectorB[w] * vectorB[w]])
        \* magnitudeA * magnitudeB = sqrt(squareA) * sqrt(squareB)
        product == MathSqrt(Num(squareA * squareB))
    IN  IF squareA = 0 \/ squareB = 0 THEN Exact(Num(0))
        ELSE IF product.coef.n = 0
        THEN Exact(Div(Num(dotProduct), product.rat))
        \* dot / sqrt(r) = dot * sqrt(1 / r)
        ELSE Surd(Num(0), Num(dotProduct), Div(Num(1), product.rad))

\* faulty variant of editSimilarity: divides by the shorter length
editSimilarity_MinLength(processed1, processed2) ==
    Sub(Num(1), Div(Num(levenshteinDistance(processed1, processed2)),
                    Num(Min2(Len(processed1), Len(processed2)))))

\* the levenshtein local of getSkillSimilarityScore
editSimilarity(processed1, processed2) ==
    Sub(Num(1), Div(Num(levenshteinDistance(processed1, processed2)),
                    Num(Max2(Len(processed1), Len(processed2)))))

\* 0.4 * levenshtein + 0.3 * jaccard + 0.3 * cosine
weightedAverage(levenshtein, jaccard, cosine) ==
    Surd(Add(Add(Mul(Rat(4, 10), levenshtein), Mul(Rat(3, 10), jaccard)),
             Mul(Rat(3, 10), cosine.rat)),
         Mul(Rat(3, 10), cosine.coef),
         cosine.rad)

\* faulty variant of getSkillSimilarityScore: no substring rule
getSkillSimilarityScore_NoSubstringRule(skill1, skill2) ==
    LET processed1 == preprocessText(skill1)
        processed2 == preprocessText(skill2)
    IN  IF processed1 = processed2 THEN Exact(Num(1))
        ELSE weightedAverage(editSimilarity(processed1, processed2),
                             jaccardSimilarity(processed1, processed2),
                             cosineSimilarity(processed1, processed2))

\* faulty variant of getSkillSimilarityScore: the substring rule looks in one
\* direction only
getSkillSimilarityScore_OneWayIncludes(skill1, skill2) ==
    LET processed1 == preprocessText(skill1)
        processed2 == preprocessText(skill2)
    IN  IF processed1 = processed2 THEN Exact(Num(1))
        ELSE IF includes(processed1, processed2)
        THEN Exact(Rat(9, 10))
        ELSE weightedAverage(editSimilarity(processed1, processed2),
                             jaccardSimilarity(processed1, processed2),
                             cosineSimilarity(processed1, processed2))

\* faulty variant of getSkillSimilarityScore: the substring rule comes before
\* the test for identical texts
getSkillSimilarityScore_IncludesFirst(skill1, skill2) ==
    LET processed1 == preprocessText(skill1)
        processed2 == preprocessText(skill2)
    IN  IF includes(processed1, processed2) \/ includes(processed2, processed1)
        THEN Exact(Rat(9, 10))
        ELSE IF processed1 = processed2 THEN Exact(Num(1))
        ELSE weightedAverage(editSimilarity(processed1, processed2),
                             jaccardSimilarity(processed1, processed2),
                             cosineSimilarity(processed1, processed2))

getSkillSimilarityScore(skill1, skill2) ==
    LET processed1 == preprocessText(skill1)
        processed2 == preprocessText(skill2)
    IN  IF processed1 = processed2 THEN Exact(Num(1))
        ELSE IF includes(processed1, processed2) \/ includes(processed2, processed1)
        THEN Exact(Rat(9, 10))
        ELSE weightedAverage(editSimilarity(processed1, processed2),
                             jaccardSimilarity(processed1, processed2),
                             cosineSimilarity(processed1, processed2))

(***************************************************************************)
(* A JavaScript Map is the sequence of its entries [key, value] in         *)
(* insertion order.                                                        *)
(***************************************************************************)
MapKeys(m) == {m[j].key : j \in DOMAIN m}
MapHas(m, key) == key \in MapKeys(m)
MapIndex(m, key) == CHOOSE j \in DOMAIN m : m[j].key = key
MapGet(m, key) == m[MapIndex(m, key)].value
\* Map.prototype.set: a present key keeps its place
MapSet(m, key, value) ==
    IF MapHas(m, key)
    THEN [m EXCEPT ![MapIndex(m, key)] = [key |-> key, value |-> value]]
    ELSE Append(m, [key |-> key, value |-> value])

\* the groups whose key is similar enough to the processed skill
MatchingGroups(groups, processedSkill, similarityThreshold) ==
    {j \in DOMAIN groups :
        SurdGeq(getSkillSimilarityScore(processedSkill, preprocessText(groups[j].key)),
                similarityThreshold)}

\* faulty variant of GroupStep: a skill is compared with every member of a
\* group, not with the key only
GroupStep_AnyMember(groups, skill, similarityThreshold) ==
    LET matching ==
          {j \in DOMAIN groups :
              \E n \in DOMAIN groups[j].value :
                  SurdGeq(getSkillSimilarityScore(preprocessText(skill),
                                                  preprocessText(groups[j].value[n])),
                          similarityThreshold)}
    IN  IF matching # {}
        THEN LET j == CHOOSE x \in matching : \A y \in matching : x <= y
             IN  [groups EXCEPT ![j].value = Append(@, skill)]
        ELSE MapSet(groups, skill, <<skill>>)

\* faulty variant of GroupStep: the last matching group takes the skill
GroupStep_LastMatch(groups, skill, similarityThreshold) ==
    LET matching == MatchingGroups(groups, preprocessText(skill), similarityThreshold)
    IN  IF matching # {}
        THEN LET j == CHOOSE x \in matching : \A y \in matching : x >= y
             IN  [groups EXCEPT ![j].value = Append(@, skill)]
        ELSE MapSet(groups, skill, <<skill>>)

\* faulty variant of GroupStep: no break, the skill joins every matching group
GroupStep_NoBreak(groups, skill, similarityThreshold) ==
    LET matching == MatchingGroups(groups, preprocessText(skill), similarityThreshold)
    IN  IF matching # {}
        THEN [j \in DOMAIN groups |->
                 IF j \in matching
                 THEN [groups[j] EXCEPT !.value = Append(@, skill)]
                 ELSE groups[j]]
        ELSE MapSet(groups, skill, <<skill>>)

\* one iteration of the for loop over skills
GroupStep(groups, skill, similarityThreshold) ==
    LET matching == MatchingGroups(groups, preprocessText(skill), similarityThreshold)
    IN  IF matching # {}
        THEN LET j == CHOOSE x \in matching : \A y \in matching : x <= y
             IN  [groups EXCEPT ![j].value = Append(@, skill)]
        ELSE MapSet(groups, skill, <<skill>>)

RECURSIVE GroupLoop(_, _, _)
\* the groups after the loop ran over the skills still to do
GroupLoop(groups, todo, similarityThreshold) ==
    IF todo = <<>> THEN groups
    ELSE GroupLoop(GroupStep(groups, Head(todo), similarityThreshold), Tail(todo),
                   similarityThreshold)

groupSimilarSkills(skills, similarityThreshold) ==
    GroupLoop(<<>>, skills, similarityThreshold)

\* the default value of the similarityThreshold parameter: 0.8
defaultSimilarityThreshold == Rat(8, 10)

isAbbrev(a) == Len(a) < 4 /\ a = toUpperCase(a)

\* faulty variant of compareRepresentative: the length alone decides
compareRepresentative_LengthOnly(a, b) == Len(a) - Len(b)

\* the comparator of the sort in getRepresentativeSkills
compareRepresentative(a, b) ==
    IF isAbbrev(a) /\ ~isAbbrev(b) THEN 1
    ELSE IF ~isAbbrev(a) /\ isAbbrev(b) THEN -1
    ELSE Len(a) - Len(b)

RECURSIVE InsertSorted(_, _)
\* x put after every element of the sorted sequence that does not compare
\* greater than it
InsertSorted(sorted, x) ==
    IF sorted = <<>> THEN <<x>>
    ELSE IF compareRepresentative(Head(sorted), x) <= 0
         THEN <<Head(sorted)>> \o InsertSorted(Tail(sorted), x)
         ELSE <<x>> \o sorted

RECURSIVE SortMembers(_)
\* [...groupMembers].sort(comparator): Array.prototype.sort is stable
SortMembers(members) ==
    IF members = <<>> THEN <<>>
    ELSE InsertSorted(SortMembers(SubSeq(members, 1, Len(members) - 1)),
                      members[Len(members)])

\* faulty variant of bestRepresentative: the representative is lowercased
bestRepresentative_Lowercased(groupMembers) == toLowerCase(SortMembers(groupMembers)[1])

bestRepresentative(groupMembers) == SortMembers(groupMembers)[1]

RECURSIVE SetAll(_, _, _)
\* mapping.set(skill, value) for every skill of members, in order
SetAll(mapping, members, value) ==
    IF members = <<>> THEN mapping
    ELSE SetAll(MapSet(mapping, Head(members), value), Tail(members), value)

RECURSIVE RepresentativeLoop(_, _)
RepresentativeLoop(mapping, groups) ==
    IF groups = <<>> THEN mapping
    ELSE RepresentativeLoop(
             SetAll(mapping, Head(groups).value, bestRepresentative(Head(groups).value)),
             Tail(groups))

getRepresentativeSkills(skillGroups) == RepresentativeLoop(<<>>, skillGroups)

RECURSIVE AddAll(_, _)
\* skillsSet.add(skill) for every truthy skill, in order; a Set keeps the
\* first insertion of a value
AddAll(skillsSet, list) ==
    IF list = <<>> THEN skillsSet
    ELSE AddAll(IF Truthy(Head(list)) /\ Head(list) \notin Range(skillsSet)
                THEN Append(skillsSet, Head(list)) ELSE skillsSet,
                Tail(list))

\* the skills of the work experiences, then of the projects, of one candidate
SkillsOf(c) ==
    (IF IsPresent(c.work_experience)
     THEN Concat([i \in DOMAIN c.work_experience[1] |->
                     OrEmpty(c.work_experience[1][i].skills)])
     ELSE <<>>)
    \o (IF IsPresent(c.projects)
        THEN Concat([i \in DOMAIN c.projects[1] |-> OrEmpty(c.projects[1][i].skills)])
        ELSE <<>>)

\* faulty variant of extractAllSkills: the project skills are left out
extractAllSkills_WorkExperienceOnly(cands) ==
    AddAll(<<>>, Concat([i \in DOMAIN cands |->
                            IF IsPresent(cands[i].work_experience)
                            THEN Concat([e \in DOMAIN cands[i].work_experience[1] |->
                                            OrEmpty(cands[i].work_experience[1][e].skills)])
                            ELSE <<>>]))

extractAllSkills(cands) ==
    AddAll(<<>>, Concat([i \in DOMAIN cands |-> SkillsOf(cands[i])]))

normalizeSkill(skill, skillMapping) ==
    IF MapHas(skillMapping, skill) /\ Truthy(MapGet(skillMapping, skill))
    THEN MapGet(skillMapping, skill)
    ELSE skill

createSkillNormalizationMapping(cands) ==
    getRepresentativeSkills(groupSimilarSkills(extractAllSkills(cands),
                                               defaultSimilarityThreshold))

(***************************************************************************)
(* Inputs of the scoring specification                                     *)
(***************************************************************************)
MaxReqWords == 2     \* words in a job-requirement text
MaxProjects == 5     \* projects of a candidate (the project score caps at 4)
MaxMonths == 61      \* total_we_months (the experience score caps at 60)

\* the result of an operation that has not run
Unset == [k |-> "unset", n |-> 0, d |-> 1]

RECURSIVE JoinWords(_)
\* the words separated by single spaces
JoinWords(ws) ==
    IF ws = <<>> THEN <<>>
    ELSE IF Len(ws) = 1 THEN ws[1]
    ELSE ws[1] \o <<" ">> \o JoinWords(Tail(ws))

\* all sequences over S of length at most n
SeqsUpTo(S, n) == UNION {[1..m -> S] : m \in 0..n}

\* a stop word of 3 letters, a stop word of 4 letters, a skill in another case,
\* a substring of a skill, a title word, a word of punctuation and one letter,
\* a word that occurs in responsibilities only
ReqWords ==
    { <<"t","h","e">>, <<"w","i","t","h">>, <<"J","a","v","a">>, <<"r","e","a","c","t">>, <<"s","e","n","i","o","r">>, <<"c","+","+">>, <<"c","l","o","u","d">> }

JobRequirements == {JoinWords(ws) : ws \in SeqsUpTo(ReqWords, MaxReqWords)}

ExpBare ==
    [skills |-> None, title |-> <<>>, company |-> <<>>, responsibilities |-> None]
ExpFull ==
    [skills |-> Some(<< <<"J","a","v","a">>, <<"R","e","a","c","t","J","S">> >>), title |-> <<"S","e","n","i","o","r"," ","D","e","v">>,
     company |-> <<"A","c","m","e">>, responsibilities |-> Some(<< <<"b","u","i","l","t"," ","c","l","o","u","d"," ","a","p","p","s">>, <<>> >>)]
ExpTitled ==
    [skills |-> Some(<<>>), title |-> <<"S","e","n","i","o","r"," ","J","a","v","a"," ","D","e","v">>,
     company |-> <<>>, responsibilities |-> Some(<< <<"c","l","o","u","d">> >>)]

WorkExperienceSamples ==
    { None, Some(<<>>), Some(<<ExpBare>>), Some(<<ExpFull>>), Some(<<ExpTitled>>),
      Some(<<ExpTitled, ExpFull>>) }

ProjBare == [skills |-> None, name |-> <<>>, description |-> <<>>]
ProjWeb ==
    [skills |-> Some(<< <<"R","e","a","c","t",".","j","s">> >>), name |-> <<"S","h","o","p">>, description |-> <<"t","h","e"," ","j","a","v","a"," ","s","i","t","e">>]

\* absent, or the first k projects of a list of bare projects, or of a list that
\* alternates ProjWeb and ProjBare
ProjectsSamples ==
    {None}
    \cup {Some([i \in 1..k |-> ProjBare]) : k \in 0..MaxProjects}
    \cup {Some([i \in 1..k |-> IF i % 2 = 1 THEN ProjWeb ELSE ProjBare]) : k \in 0..MaxProjects}

MonthsSamples == {0, 1, 24, 59, 60, MaxMonths}

Candidates ==
    [work_experience : WorkExperienceSamples, projects : ProjectsSamples,
     total_we_months : MonthsSamples]

\* the scoring variables while another specification runs
ScoreIdle ==
    /\ candidate = [work_experience |-> None, projects |-> None, total_we_months |-> 0]
    /\ jobRequirement = <<>>
    /\ matchScore = Unset
    /\ totalScore = Unset
    /\ tfTerm = <<>>
    /\ tf = Unset
    /\ tfidf = Unset

ScoreInit ==
    /\ candidate \in Candidates
    /\ jobRequirement \in JobRequirements
    /\ matchScore = Unset
    /\ totalScore = Unset
    /\ tfTerm = <<>>
    /\ tf = Unset
    /\ tfidf = Unset

CalculateJobRequirementMatchScore ==
    /\ pc = "start"
    /\ matchScore' = calculateJobRequirementMatchScore(candidate, jobRequirement)
    /\ pc' = "matched"
    /\ UNCHANGED <<candidate, jobRequirement, totalScore, tfTerm, tf, tfidf>>
    /\ UNCHANGED <<similarityVars, clusterVars, normalizeVars>>
    /\ UNCHANGED <<filterVars, sortVars, experienceVars, panelVars, loadVars, dashboardVars>>

CalculateTotalCandidateScore ==
    /\ pc = "start"
    /\ totalScore' = calculateTotalCandidateScore(candidate, jobRequirement)
    /\ pc' = "scored"
    /\ UNCHANGED <<candidate, jobRequirement, matchScore, tfTerm, tf, tfidf>>
    /\ UNCHANGED <<similarityVars, clusterVars, normalizeVars>>
    /\ UNCHANGED <<filterVars, sortVars, experienceVars, panelVars, loadVars, dashboardVars>>

\* the call of line 218, for one term of the requirement
CalculateTFIDF ==
    /\ pc = "start"
    /\ \E i \in DOMAIN processJobRequirement(jobRequirement) :
          LET term == processJobRequirement(jobRequirement)[i]
          IN  /\ tfTerm' = term
              /\ tf' = calculateTF(term, candidateDocument(candidate))
              /\ tfidf' = calculateTFIDF(term, candidateDocument(candidate),
                                         createCandidateDocuments(<<candidate>>))
    /\ pc' = "tfidf"
    /\ UNCHANGED <<candidate, jobRequirement, matchScore, totalScore>>
    /\ UNCHANGED <<similarityVars, clusterVars, normalizeVars>>
    /\ UNCHANGED <<filterVars, sortVars, experienceVars, panelVars, loadVars, dashboardVars>>

(***************************************************************************)
(* Inputs and actions of the similarity specification                      *)
(***************************************************************************)
MaxStrLen == 3       \* length of an enumerated skill string

\* a letter, a capital, white space, punctuation
SimilarityAlphabet == {"a", "B", " ", "."}

SkillSamples ==
    { <<"R","e","a","c","t">>, <<"R","e","a","c","t","J","S">>, <<"R","e","a","c","t",".","j","s">>, <<"P","y","t","h","o","n">>, <<"J","a","v","a">> }

SimilarityStrings == SeqsUpTo(SimilarityAlphabet, MaxStrLen) \cup SkillSamples

UnsetScore == Surd(Unset, Unset, Unset)

SimilarityIdle ==
    /\ skillA = <<>>
    /\ skillB = <<>>
    /\ similarity = UnsetScore

SimilarityInit ==
    /\ skillA \in SimilarityStrings
    /\ skillB \in SimilarityStrings
    /\ similarity = UnsetScore

GetSkillSimilarityScore ==
    /\ pc = "start"
    /\ similarity' = getSkillSimilarityScore(skillA, skillB)
    /\ pc' = "compared"
    /\ UNCHANGED <<skillA, skillB>>
    /\ UNCHANGED <<scoreVars, clusterVars, normalizeVars>>
    /\ UNCHANGED <<filterVars, sortVars, experienceVars, panelVars, loadVars, dashboardVars>>

(***************************************************************************)
(* Inputs and actions of the clustering specification                      *)
(***************************************************************************)
MaxSkills == 4       \* length of the skills argument

\* variants that normalize alike, a substring chain, two word orders, and a
\* skill that normalizes to the empty string
ClusterSkills ==
    { <<"R","e","a","c","t">>, <<"r","e","a","c","t">>, <<"R","e","a","c","t","J","S">>, <<"J","S">>, <<"a"," ","b">>, <<"b"," ","a">>, <<".">> }

Thresholds == {Rat(1, 2), defaultSimilarityThreshold, Num(1)}

ClusterIdle ==
    /\ skillList = <<>>
    /\ threshold = defaultSimilarityThreshold
    /\ clusters = <<>>

ClusterInit ==
    /\ skillList \in SeqsUpTo(ClusterSkills, MaxSkills)
    /\ threshold \in Thresholds
    /\ clusters = <<>>

GroupSimilarSkills ==
    /\ pc = "start"
    /\ clusters' = groupSimilarSkills(skillList, threshold)
    /\ pc' = "grouped"
    /\ UNCHANGED <<skillList, threshold>>
    /\ UNCHANGED <<scoreVars, similarityVars, normalizeVars>>
    /\ UNCHANGED <<filterVars, sortVars, experienceVars, panelVars, loadVars, dashboardVars>>

(***************************************************************************)
(* Inputs and actions of the normalization specification                   *)
(***************************************************************************)
MaxCandidates == 3   \* candidates in the data set

ExpWithSkills(s) ==
    [skills |-> s, title |-> <<>>, company |-> <<>>, responsibilities |-> None]
ProjWithSkills(s) == [skills |-> s, name |-> <<>>, description |-> <<>>]
CandidateWith(we, projects) ==
    [work_experience |-> we, projects |-> projects, total_we_months |-> 0]

\* absent collections, an absent skills field, an empty skill, duplicates,
\* variants of one skill and abbreviations
NormalizeCandidates ==
    { CandidateWith(None, None),
      CandidateWith(Some(<<ExpWithSkills(Some(<< <<"R","e","a","c","t">>, <<"A","W","S">> >>))>>),
                    Some(<<ProjWithSkills(Some(<< <<"R","e","a","c","t","J","S">>, <<>> >>))>>)),
      CandidateWith(Some(<<ExpWithSkills(None)>>),
                    Some(<<ProjWithSkills(Some(<< <<"r","e","a","c","t">>, <<"R","e","a","c","t">> >>))>>)),
      CandidateWith(Some(<<ExpWithSkills(Some(<< <<"J","S">> >>)), ExpWithSkills(Some(<< <<"a","w","s">> >>))>>),
                    Some(<<>>)),
      CandidateWith(Some(<<>>),
                    Some(<<ProjWithSkills(Some(<< <<"R","e","a","c","t",".","j","s">>, <<"j","s">> >>)), ProjWithSkills(None)>>)) }

\* the skills handed to normalizeSkill: skills of the data set and others
RawSkills ==
    { <<"R","e","a","c","t">>, <<"R","e","a","c","t","J","S">>, <<"r","e","a","c","t">>, <<"R","e","a","c","t",".","j","s">>, <<"A","W","S">>, <<"a","w","s">>, <<"J","S">>, <<"j","s">>, <<"J","a","v","a">>, <<>> }

NormalizeIdle ==
    /\ candidates = <<>>
    /\ originalToNormalizedMap = <<>>
    /\ rawSkill = <<>>
    /\ normalizedSkill = <<>>

NormalizeInit ==
    /\ candidates \in SeqsUpTo(NormalizeCandidates, MaxCandidates)
    /\ originalToNormalizedMap = <<>>
    /\ rawSkill = <<>>
    /\ normalizedSkill = <<>>

\* Dashboard.loadData, line 268 of the dashboard page
CreateSkillNormalizationMapping ==
    /\ pc = "start"
    /\ originalToNormalizedMap' = createSkillNormalizationMapping(candidates)
    /\ pc' = "mapped"
    /\ UNCHANGED <<candidates, rawSkill, normalizedSkill>>
    /\ UNCHANGED <<scoreVars, similarityVars, clusterVars>>
    /\ UNCHANGED <<filterVars, sortVars, experienceVars, panelVars, loadVars, dashboardVars>>

\* normalizeSkill(skill, originalToNormalizedMap) with the map built before
NormalizeSkill ==
    /\ pc = "mapped"
    /\ \E s \in RawSkills :
          /\ rawSkill' = s
          /\ normalizedSkill' = normalizeSkill(s, originalToNormalizedMap)
    /\ pc' = "normalized"
    /\ UNCHANGED <<candidates, originalToNormalizedMap>>
    /\ UNCHANGED <<scoreVars, similarityVars, clusterVars>>
    /\ UNCHANGED <<filterVars, sortVars, experienceVars, panelVars, loadVars, dashboardVars>>

(***************************************************************************)
(* utils/filterUtils.ts (kept at the end of                                *)
(* components/dashboard/CandidatesList.tsx): filterCandidates              *)
(*                                                                         *)
(* The experience-level and employment-status tags are only compared for   *)
(* equality, so they are plain strings; "" is the empty string.            *)
(***************************************************************************)
\* faulty variant of hasError: an empty error string counts as an error
hasError_Present(c) == IsPresent(c.error)

\* if (candidate.error)
hasError(c) == IsPresent(c.error) /\ Truthy(c.error[1])

\* some element of the list, lowercased, includes search; a falsy element
\* does not match
someIncludes(list, search) ==
    \E i \in DOMAIN list : Truthy(list[i]) /\ includes(toLowerCase(list[i]), search)

\* faulty variant of matchesSearch: only name, skills and location are searched
matchesSearch_NameSkillsLocation(c, searchTerm) ==
    IF ~Truthy(searchTerm) THEN TRUE
    ELSE LET search == toLowerCase(searchTerm)
         IN  \/ Truthy(c.name) /\ includes(toLowerCase(c.name), search)
             \/ someIncludes(AddAll(<<>>, SkillsOf(c)), search)
             \/ Truthy(c.location) /\ includes(toLowerCase(c.location), search)

matchesSearch(c, searchTerm) ==
    IF ~Truthy(searchTerm) THEN TRUE
    ELSE LET search == toLowerCase(searchTerm)
             allSkills == AddAll(<<>>, SkillsOf(c))
             experiences == OrEmpty(c.work_experience)
             projectList == OrEmpty(c.projects)
         IN  IF Truthy(c.name) /\ includes(toLowerCase(c.name), search) THEN TRUE
             ELSE IF someIncludes(allSkills, search) THEN TRUE
             ELSE IF Truthy(c.location) /\ includes(toLowerCase(c.location), search)
                  THEN TRUE
             ELSE IF someIncludes([i \in DOMAIN experiences |-> experiences[i].title],
                                  search) THEN TRUE
             ELSE IF someIncludes([i \in DOMAIN experiences |-> experiences[i].company],
                                  search) THEN TRUE
             ELSE IF someIncludes([i \in DOMAIN projectList |-> projectList[i].name],
                                  search) THEN TRUE
             ELSE IF someIncludes([i \in DOMAIN projectList |->
                                      projectList[i].description], search) THEN TRUE
             ELSE FALSE

\* skills.some(skill => candidateSkills.has(skill)); candidateSkills holds
\* every skill of the candidate, the empty string included
matchesSkills(c, skills) ==
    \E i \in DOMAIN skills : skills[i] \in Range(SkillsOf(c))

\* candidate.computed?.experience_level || ''
experienceLevelOf(c) ==
    IF IsPresent(c.computed) THEN c.computed[1].experience_level ELSE ""

\* candidate.computed?.employment_status || ''
employmentStatusOf(c) ==
    IF IsPresent(c.computed) THEN c.computed[1].employment_status ELSE ""

\* candidate.location || 'Unknown'
locationOrUnknown(c) == IF Truthy(c.location) THEN c.location ELSE <<"U","n","k","n","o","w","n">>

\* the callback of candidates.filter, lines 277-318
keepCandidate(c, f) ==
    IF hasError(c) THEN FALSE
    ELSE IF Truthy(f.search) /\ ~matchesSearch(c, f.search) THEN FALSE
    ELSE IF Len(f.experience) > 0 /\ experienceLevelOf(c) \notin Range(f.experience)
         THEN FALSE
    ELSE IF Len(f.skills) > 0 /\ ~matchesSkills(c, f.skills) THEN FALSE
    ELSE IF Len(f.location) > 0 /\ locationOrUnknown(c) \notin Range(f.location)
         THEN FALSE
    ELSE IF Len(f.employmentStatus) > 0
            /\ employmentStatusOf(c) \notin Range(f.employmentStatus) THEN FALSE
    ELSE TRUE

RECURSIVE Reverse(_)
Reverse(s) == IF s = <<>> THEN <<>> ELSE Append(Reverse(Tail(s)), Head(s))

\* faulty variant of filterCandidates: the survivors come out in reverse order
filterCandidates_Reversed(cands, f) ==
    Reverse(SelectSeq(cands, LAMBDA c : keepCandidate(c, f)))

filterCandidates(cands, f) == SelectSeq(cands, LAMBDA c : keepCandidate(c, f))

(***************************************************************************)
(* Inputs and actions of the filtering specification                       *)
(***************************************************************************)
MaxFilterCandidates == 2     \* length of the list handed to filterCandidates

\* candidate.computed with the two tags
Computed(level, status) ==
    Some([score |-> Num(0), experience_level |-> level, employment_status |-> status])

\* a Candidate (types/index.ts); an absent string field is the empty string
Person(name, location, error, we, projects, computed) ==
    [name |-> name, location |-> location, location_coordinates |-> None,
     error |-> error, work_experience |-> we, projects |-> projects,
     total_we_months |-> 0, computed |-> computed]

ExpGo ==
    [skills |-> Some(<< <<"G","o">> >>), title |-> <<"D","e","v">>, company |-> <<"A","c","m","e">>,
     responsibilities |-> None]
ProjShop ==
    [skills |-> Some(<< <<"V","u","e">> >>), name |-> <<"S","h","o","p">>, description |-> <<"w","e","b"," ","s","i","t","e">>]
ProjLower == [skills |-> Some(<< <<"g","o">>, <<>> >>), name |-> <<>>, description |-> <<>>]

\* every searched field filled, each with letters of its own
Ann == Person(<<"A","n","n">>, <<"R","o","m","e">>, None, Some(<<ExpGo>>), Some(<<ProjShop>>),
              Computed("1-3 years", "Employed"))
\* an empty error string, no location, no computed block, no lists
Bob == Person(<<"B","o","b">>, <<>>, Some(<<>>), None, None, None)
\* no name, skills in a project only
Cy == Person(<<>>, <<"O","s","l","o">>, None, Some(<<ExpBare>>), Some(<<ProjLower>>),
             Computed("5+ years", "Unemployed"))
\* Ann's record with an error
Dee == Person(<<"D","e","e">>, <<"R","o","m","e">>, Some(<<"b","a","d">>), Some(<<ExpGo>>), Some(<<ProjShop>>),
              Computed("1-3 years", "Employed"))
Eve == Person(<<"E","v","e">>, <<"R","o","m","e">>, None, Some(<<ExpTitled>>), Some(<<>>),
              Computed("No Experience", "Unemployed"))

FilterCandidateSamples == {Ann, Bob, Cy, Dee, Eve}

\* empty, then one term per searched field (name, skill, location, title,
\* company, project name, project description), then a term nobody has
SearchSamples ==
    { <<>>, <<"A","N">>, <<"g","o">>, <<"r","o","m">>, <<"d","e","v">>, <<"A","C","M","E">>, <<"s","h","o","p">>, <<"S","i","t","e">>, <<"z","z">> }

FilterSamples ==
    [search : SearchSamples,
     experience : { <<>>, <<"No Experience", "1-3 years">> },
     skills : { <<>>, << <<"G","o">> >>, << <<"J","a","v","a">>, <<"g","o">> >> },
     location : { <<>>, << <<"U","n","k","n","o","w","n">> >>, << <<"O","s","l","o">>, <<"R","o","m","e">> >> },
     employmentStatus : { <<>>, <<"Employed">> },
     jobRequirement : { <<>> }]

emptyFilter ==
    [search |-> <<>>, experience |-> <<>>, skills |-> <<>>, location |-> <<>>,
     employmentStatus |-> <<>>, jobRequirement |-> <<>>]

FilterIdle ==
    /\ filterInput = <<>>
    /\ filterSpec = emptyFilter
    /\ filterOutput = <<>>

FilterInit ==
    /\ filterInput \in SeqsUpTo(FilterCandidateSamples, MaxFilterCandidates)
    /\ filterSpec \in FilterSamples
    /\ filterOutput = <<>>

\* filterCandidates(candidates, filters); the function keeps no state, so a
\* second call sees the same arguments
FilterCandidates ==
    /\ pc \in {"start", "filtered"}
    /\ filterOutput' = filterCandidates(filterInput, filterSpec)
    /\ pc' = IF pc = "start" THEN "filtered" ELSE "refiltered"
    /\ UNCHANGED <<filterInput, filterSpec>>
    /\ UNCHANGED <<scoreVars, similarityVars, clusterVars, normalizeVars>>
    /\ UNCHANGED <<sortVars, experienceVars, panelVars, loadVars, dashboardVars>>

(***************************************************************************)
(* utils/filterUtils.ts: calculateDistance and sortCandidates              *)
(*                                                                         *)
(* A coordinate is a JavaScript value: a number record, NaN included, or a *)
(* value of another type (StringValue).  The Haversine distance is         *)
(* computed for two points on one meridian or two points on the equator,   *)
(* where it is R times the difference of the angles in radians; the result *)
(* is kept in units of pi/180 km, which leaves every comparison of two     *)
(* distances as it is.  The inputs have no other pairs of points.          *)
(***************************************************************************)
\* a value whose typeof is not 'number'
StringValue == [k |-> "string", n |-> 0, d |-> 1]

\* typeof v === 'number'
IsNumberType(v) == v.k \in {"num", "nan", "inf"}

\* Math.abs
MathAbs(x) == IF IsNum(x) THEN Rat(Abs(x.n), x.d) ELSE x

\* the sign of a comparator's result as Array.prototype.sort reads it: NaN
\* counts as 0
Sgn(x) ==
    IF IsNaN(x) THEN 0
    ELSE IF x.n < 0 THEN -1
    ELSE IF x.n = 0 THEN 0
    ELSE 1

calculateDistance(coordsA, coordsB) ==
    LET latA == coordsA.lat
        lngA == coordsA.lng
        latB == coordsB.lat
        lngB == coordsB.lng
        R == Num(6371)
    IN  IF IsNaN(latA) \/ IsNaN(lngA) \/ IsNaN(latB) \/ IsNaN(lngB) THEN NaN
        ELSE CASE lngA = lngB -> Mul(R, MathAbs(Sub(latB, latA)))
               [] lngA # lngB /\ latA = Num(0) /\ latB = Num(0) ->
                     Mul(R, MathAbs(Sub(lngB, lngA)))

\* coords && typeof coords.lat === 'number' && typeof coords.lng === 'number'
isValid(coords) ==
    IsPresent(coords) /\ IsNumberType(coords[1].lat) /\ IsNumberType(coords[1].lng)

\* the comparator of lines 595-624
compareDistance(a, b, direction, referenceLocation) ==
    LET coordsA == a.location_coordinates
        coordsB == b.location_coordinates
        isValidA == isValid(coordsA)
        isValidB == isValid(coordsB)
    IN  IF ~isValidA /\ ~isValidB THEN 0
        ELSE IF ~isValidA THEN (IF direction = "asc" THEN 1 ELSE -1)
        ELSE IF ~isValidB THEN (IF direction = "asc" THEN -1 ELSE 1)
        ELSE LET distanceA == calculateDistance(referenceLocation, coordsA[1])
                 distanceB == calculateDistance(referenceLocation, coordsB[1])
             IN  IF IsNaN(distanceA) /\ IsNaN(distanceB) THEN 0
                 ELSE IF IsNaN(distanceA) THEN (IF direction = "asc" THEN 1 ELSE -1)
                 ELSE IF IsNaN(distanceB) THEN (IF direction = "asc" THEN -1 ELSE 1)
                 ELSE IF direction = "asc" THEN Sgn(Sub(distanceA, distanceB))
                 ELSE Sgn(Sub(distanceB, distanceA))

\* the place of a character in the collation of String.prototype.localeCompare:
\* the space, then the letters, upper and lower case together
CollationRank(c) ==
    IF LowerChar(c) \in Range(LowerLetters)
    THEN CHOOSE i \in DOMAIN LowerLetters : LowerLetters[i] = LowerChar(c)
    ELSE 0

RECURSIVE ComparePrimary(_, _)
\* the strings compared letter by letter, case ignored
ComparePrimary(s, t) ==
    IF s = <<>> /\ t = <<>> THEN 0
    ELSE IF s = <<>> THEN -1
    ELSE IF t = <<>> THEN 1
    ELSE IF CollationRank(Head(s)) < CollationRank(Head(t)) THEN -1
    ELSE IF CollationRank(Head(s)) > CollationRank(Head(t)) THEN 1
    ELSE ComparePrimary(Tail(s), Tail(t))

RECURSIVE CompareCase(_, _)
\* strings with the same letters: at the first difference of case the lower
\* case comes first
CompareCase(s, t) ==
    IF s = <<>> \/ t = <<>> THEN 0
    ELSE IF Head(s) = Head(t) THEN CompareCase(Tail(s), Tail(t))
    ELSE IF Head(s) = LowerChar(Head(s)) THEN -1
    ELSE 1

\* String.prototype.localeCompare for strings of letters and spaces
localeCompare(s, t) ==
    IF ComparePrimary(s, t) # 0 THEN ComparePrimary(s, t) ELSE CompareCase(s, t)

\* a.computed?.score || 0
scoreOf(c) ==
    IF IsPresent(c.computed) /\ IsNum(c.computed[1].score) /\ c.computed[1].score.n # 0
    THEN c.computed[1].score
    ELSE Num(0)

\* the value undefined of an absent string field: no sequence of characters
undefined == <<"undefined">>

\* ToString of the argument of localeCompare
LocationToString(v) == IF v = undefined THEN <<"u","n","d","e","f","i","n","e","d">> ELSE v

\* the comparator that sortCandidates hands to Array.prototype.sort; a field
\* outside the switch gets no sort
compareCandidates(a, b, option, referenceLocation) ==
    LET asc == option.direction = "asc"
    IN  CASE option.field = "name" ->
               IF asc THEN localeCompare(a.name, b.name) ELSE localeCompare(b.name, a.name)
          [] option.field = "score" ->
               IF asc THEN Sgn(Sub(scoreOf(a), scoreOf(b)))
               ELSE Sgn(Sub(scoreOf(b), scoreOf(a)))
          [] option.field = "experience" ->
               IF asc THEN a.total_we_months - b.total_we_months
               ELSE b.total_we_months - a.total_we_months
          [] option.field = "distance" ->
               IF ~IsPresent(referenceLocation)
               THEN (IF asc THEN localeCompare(LocationToString(a.location), LocationToString(b.location))
                     ELSE localeCompare(LocationToString(b.location), LocationToString(a.location)))
               ELSE compareDistance(a, b, option.direction, referenceLocation[1])
          [] OTHER -> 0

RECURSIVE InsertBy(_, _, _)
\* x put after every element of the sorted sequence that does not compare
\* greater than it
InsertBy(sorted, x, cmp) ==
    IF sorted = <<>> THEN <<x>>
    ELSE IF cmp[Head(sorted), x] <= 0
         THEN <<Head(sorted)>> \o InsertBy(Tail(sorted), x, cmp)
         ELSE <<x>> \o sorted

RECURSIVE StableSort(_, _)
\* Array.prototype.sort with a comparator: the sort is stable
StableSort(list, cmp) ==
    IF list = <<>> THEN <<>>
    ELSE InsertBy(StableSort(SubSeq(list, 1, Len(list) - 1), cmp), list[Len(list)], cmp)

\* the candidates whose location is undefined when the comparator is
\* a.location.localeCompare(b.location): as a receiver such a location
\* raises a TypeError
undefinedReceivers(cands, option, referenceLocation) ==
    IF option.field = "distance" /\ ~IsPresent(referenceLocation)
    THEN {i \in DOMAIN cands : cands[i].location = undefined}
    ELSE {}

\* [...candidates] sorted by the option's comparator, when no call of the
\* comparator raises an error
sortCandidates(cands, option, referenceLocation) ==
    StableSort(cands, [a \in Range(cands), b \in Range(cands) |->
                          compareCandidates(a, b, option, referenceLocation)])

(***************************************************************************)
(* Inputs and actions of the sorting specification                         *)
(***************************************************************************)
MaxSortCandidates == 3     \* length of the list handed to sortCandidates

Coordinates(lat, lng) == Some([lat |-> lat, lng |-> lng])

\* a Candidate with the fields that sortCandidates reads
Located(name, location, coords, months, score) ==
    [name |-> name, location |-> location, location_coordinates |-> coords,
     error |-> None, work_experience |-> None, projects |-> None,
     total_we_months |-> months,
     computed |-> Some([score |-> score, experience_level |-> "",
                        employment_status |-> ""])]

\* one degree north of the reference point, three degrees north, two degrees
\* east on the equator; then no coordinates, a latitude that is a string and a
\* latitude that is NaN
Near == Located(<<"a","n","n">>, <<"R","o","m","e">>, Coordinates(Num(1), Num(0)), 12, Num(50))
Far == Located(<<"B","o","b">>, <<"o","s","l","o">>, Coordinates(Num(3), Num(0)), 0, Num(70))
East == Located(<<"b","o">>, <<"O","s","l","o">>, Coordinates(Num(0), Num(2)), 60, NaN)
NoCoords == Located(<<"C","y">>, <<"B","e","r","n">>, None, 12, Num(0))
TextCoords == Located(<<"D","e","e">>, <<"R","o","m","e">>, Coordinates(StringValue, Num(0)), 3, Num(70))
NaNCoords == Located(<<"E","v","e">>, <<"P","i","s","a">>, Coordinates(NaN, Num(0)), 24, Num(20))
\* a candidate of the data without the location field
NoLocation == Located(<<"F","l","o">>, undefined, None, 6, Num(30))

SortCandidateSamples == {Near, Far, East, NoCoords, TextCoords, NaNCoords, NoLocation}

SortOptions == [field : {"name", "score", "distance", "experience"},
                direction : {"asc", "desc"}]

\* no reference location, or the point (0, 0)
ReferenceSamples == {None, Coordinates(Num(0), Num(0))}

SortIdle ==
    /\ sortInput = <<>>
    /\ sortOrder = [field |-> "score", direction |-> "desc"]
    /\ sortReference = None
    /\ sortOutput = <<>>
    /\ sortError = ""

SortInit ==
    /\ sortInput \in SeqsUpTo(SortCandidateSamples, MaxSortCandidates)
    /\ sortOrder \in SortOptions
    /\ sortReference \in ReferenceSamples
    /\ sortOutput = <<>>
    /\ sortError = ""

\* sortCandidates(candidates, sortOption, referenceLocation).  The order of
\* the comparator's calls is left to the engine: with one undefined location
\* in a list of several candidates the sort raises a TypeError or, when that
\* location is never the receiver, sorts it as the string "undefined"; with
\* two of them one is the receiver of some call
SortCandidates ==
    /\ pc = "start"
    /\ LET receivers == undefinedReceivers(sortInput, sortOrder, sortReference)
       IN  \/ /\ Len(sortInput) >= 2 /\ receivers # {}
              /\ sortError' = "TypeError"
              /\ sortOutput' = <<>>
           \/ /\ Len(sortInput) < 2 \/ Cardinality(receivers) <= 1
              /\ sortError' = ""
              /\ sortOutput' = sortCandidates(sortInput, sortOrder, sortReference)
    /\ pc' = "sorted"
    /\ UNCHANGED <<sortInput, sortOrder, sortReference>>
    /\ UNCHANGED <<scoreVars, similarityVars, clusterVars, normalizeVars>>
    /\ UNCHANGED <<filterVars, experienceVars, panelVars, loadVars, dashboardVars>>

(***************************************************************************)
(* data/candidatesData.ts: categorizeExperience                            *)
(***************************************************************************)
\* faulty variant of categorizeExperience: a year of experience still counts
\* as less than one year
categorizeExperience_YearIncluded(months) ==
    IF months = 0 THEN "No Experience"
    ELSE IF months <= 12 THEN "Less than 1 year"
    ELSE IF months < 36 THEN "1-3 years"
    ELSE IF months < 60 THEN "3-5 years"
    ELSE "5+ years"

categorizeExperience(months) ==
    IF months = 0 THEN "No Experience"
    ELSE IF months < 12 THEN "Less than 1 year"
    ELSE IF months < 36 THEN "1-3 years"
    ELSE IF months < 60 THEN "3-5 years"
    ELSE "5+ years"

MaxExperienceMonths == 130     \* the largest total_we_months handed over

ExperienceIdle ==
    /\ experienceMonths = 0
    /\ experienceLevel = ""

ExperienceInit ==
    /\ experienceMonths \in 0..MaxExperienceMonths
    /\ experienceLevel = ""

\* experience_level: categorizeExperience(candidateData.total_we_months)
CategorizeExperience ==
    /\ pc = "start"
    /\ experienceLevel' = categorizeExperience(experienceMonths)
    /\ pc' = "categorized"
    /\ UNCHANGED experienceMonths
    /\ UNCHANGED <<scoreVars, similarityVars, clusterVars, normalizeVars>>
    /\ UNCHANGED <<filterVars, sortVars, panelVars, loadVars, dashboardVars>>

(***************************************************************************)
(* pages/Dashboard.tsx (kept as src/unnamed/part_004): the data that       *)
(* loadData derives from the candidates, and the cache.                    *)
(*                                                                         *)
(* A cache entry holds the value that JSON.parse gives back for what       *)
(* JSON.stringify wrote: NaN and Infinity come back as null, and a Map     *)
(* written through Object.fromEntries comes back with its integer-like     *)
(* keys first, in ascending order.                                         *)
(***************************************************************************)
\* faulty variant of normalizedCandidatesOf: the candidates keep their raw
\* skills
normalizedCandidatesOf_NotNormalized(cands, skillMapping) == cands

\* useMemo of lines 123-164: the candidates with every skill normalized
normalizedCandidatesOf(cands, skillMapping) ==
    IF cands = <<>> \/ skillMapping = <<>> THEN cands
    ELSE [i \in DOMAIN cands |->
            [cands[i] EXCEPT
               !.work_experience =
                  IF IsPresent(@)
                  THEN Some([e \in DOMAIN @[1] |->
                          IF IsPresent(@[1][e].skills)
                          THEN [@[1][e] EXCEPT !.skills =
                                  Some([k \in DOMAIN @[1] |->
                                          normalizeSkill(@[1][k], skillMapping)])]
                          ELSE @[1][e]])
                  ELSE @,
               !.projects =
                  IF IsPresent(@)
                  THEN Some([p \in DOMAIN @[1] |->
                          IF IsPresent(@[1][p].skills)
                          THEN [@[1][p] EXCEPT !.skills =
                                  Some([k \in DOMAIN @[1] |->
                                          normalizeSkill(@[1][k], skillMapping)])]
                          ELSE @[1][p]])
                  ELSE @]]

RECURSIVE GroupLoopOver(_, _)
\* skillMapping.forEach of lines 273-281 and 231-239: the original skill is
\* pushed on the group of its normalized skill
GroupLoopOver(groupedMap, entries) ==
    IF entries = <<>> THEN groupedMap
    ELSE LET normalized == Head(entries).value
             original == Head(entries).key
             withGroup == IF MapHas(groupedMap, normalized) THEN groupedMap
                          ELSE MapSet(groupedMap, normalized, <<>>)
         IN  GroupLoopOver(MapSet(withGroup, normalized,
                                  Append(MapGet(withGroup, normalized), original)),
                           Tail(entries))

\* faulty variant of normalizedToGroupMap: a representative is not listed in
\* its own group
normalizedToGroupMap_VariantsOnly(skillMapping) ==
    GroupLoopOver(<<>>, SelectSeq(skillMapping, LAMBDA e : e.key # e.value))

\* the reverse mapping of lines 272-281 (fresh) and 230-239 (cache)
normalizedToGroupMap(skillMapping) == GroupLoopOver(<<>>, skillMapping)

RECURSIVE Distinct(_)
\* Array.from(new Set(list)): the first occurrence of every value
Distinct(list) ==
    IF list = <<>> THEN <<>>
    ELSE LET front == Distinct(SubSeq(list, 1, Len(list) - 1))
             last == list[Len(list)]
         IN  IF last \in Range(front) THEN front ELSE Append(front, last)

\* Array.from(new Set(skillMapping.values()))
uniqueNormalizedSkills(skillMapping) ==
    Distinct([j \in DOMAIN skillMapping |-> skillMapping[j].value])

RECURSIVE LocationLoop(_, _)
\* candidates.forEach of getUniqueLocations
LocationLoop(locations, cands) ==
    IF cands = <<>> THEN locations
    ELSE LocationLoop(IF Truthy(Head(cands).location)
                      THEN MapSet(locations, Head(cands).location,
                                  Head(cands).location_coordinates)
                      ELSE MapSet(locations, <<"U","n","k","n","o","w","n">>, None),
                      Tail(cands))

\* the entries as {location, coordinates}, sorted by location
getUniqueLocations(cands) ==
    LET entries == LocationLoop(<<>>, cands)
        list == [j \in DOMAIN entries |->
                    [location |-> entries[j].key, coordinates |-> entries[j].value]]
    IN  StableSort(list, [a \in Range(list), b \in Range(list) |->
                             localeCompare(a.location, b.location)])

RECURSIVE IncrementAll(_, _)
\* counts.set(skill, (counts.get(skill) || 0) + 1) for every skill of the list
IncrementAll(counts, list) ==
    IF list = <<>> THEN counts
    ELSE IncrementAll(MapSet(counts, Head(list),
                             (IF MapHas(counts, Head(list))
                              THEN MapGet(counts, Head(list)) ELSE 0) + 1),
                      Tail(list))

RECURSIVE calculateSkillCounts(_)
\* every candidate counts once for each of its truthy skills
calculateSkillCounts(candidatesList) ==
    IF candidatesList = <<>> THEN <<>>
    ELSE IncrementAll(
            calculateSkillCounts(SubSeq(candidatesList, 1, Len(candidatesList) - 1)),
            AddAll(<<>>, SkillsOf(candidatesList[Len(candidatesList)])))

\* the value that JSON gives back for a number
Null == [k |-> "null", n |-> 0, d |-> 1]
JsonNumber(x) == IF IsNum(x) THEN x ELSE Null

\* JSON.parse(JSON.stringify(candidate)): the numbers of a candidate
JsonCandidate(c) ==
    [c EXCEPT
       !.location_coordinates =
          IF IsPresent(@)
          THEN Some([lat |-> JsonNumber(@[1].lat), lng |-> JsonNumber(@[1].lng)])
          ELSE @,
       !.computed =
          IF IsPresent(@) THEN Some([@[1] EXCEPT !.score = JsonNumber(@)]) ELSE @]

\* a key that an object lists as an integer index: digits without a leading
\* zero
IsArrayIndex(key) ==
    /\ key # <<>>
    /\ \A i \in DOMAIN key : key[i] \in Digits
    /\ Len(key) = 1 \/ key[1] # "0"

DigitValue(c) ==
    CHOOSE v \in 0..9 : <<"0","1","2","3","4","5","6","7","8","9">>[v + 1] = c

RECURSIVE IndexValue(_)
IndexValue(key) ==
    IF key = <<>> THEN 0
    ELSE 10 * IndexValue(SubSeq(key, 1, Len(key) - 1)) + DigitValue(key[Len(key)])

\* Object.entries(JSON.parse(JSON.stringify(Object.fromEntries(map)))): the
\* integer-like keys in ascending order, then the other keys in insertion
\* order
ObjectFromEntries(m) ==
    LET indexed == SelectSeq(m, LAMBDA e : IsArrayIndex(e.key))
        named == SelectSeq(m, LAMBDA e : ~IsArrayIndex(e.key))
    IN  StableSort(indexed, [a \in Range(indexed), b \in Range(indexed) |->
                                IndexValue(a.key) - IndexValue(b.key)])
        \o named

CACHE_EXPIRATION == 86400000

CACHE_KEYS ==
    {"CANDIDATES", "SKILL_MAPPING", "LOCATIONS", "SKILL_COUNTS", "SKILLS_LIST",
     "CACHED_TIMESTAMP"}

\* a browser storage without the six entries
emptyStorage == [key \in CACHE_KEYS |-> None]

\* getFromCache(key): null for a missing entry
getFromCache(storage, key) == storage[key]

\* isCacheValid: a timestamp that is not 0 and less than 24 hours old
isCacheValid(storage, time) ==
    LET timestamp == getFromCache(storage, "CACHED_TIMESTAMP")
    IN  IF ~IsPresent(timestamp) \/ timestamp[1] = 0 THEN FALSE
        ELSE time - timestamp[1] < CACHE_EXPIRATION

\* the conditions of lines 212 and 219-220: arrays and objects are truthy
cacheUsable(storage, time) ==
    /\ isCacheValid(storage, time)
    /\ IsPresent(getFromCache(storage, "CANDIDATES"))
    /\ IsPresent(getFromCache(storage, "SKILL_MAPPING"))
    /\ IsPresent(getFromCache(storage, "LOCATIONS"))
    /\ IsPresent(getFromCache(storage, "SKILL_COUNTS"))
    /\ IsPresent(getFromCache(storage, "SKILLS_LIST"))

\* the state that the fresh path of loadData sets, lines 263-302
freshState(data) ==
    LET skillMapping == createSkillNormalizationMapping(data)
    IN  [candidates |-> data,
         originalToNormalizedMap |-> skillMapping,
         groupedSkillsMap |-> normalizedToGroupMap(skillMapping),
         skillsList |-> uniqueNormalizedSkills(skillMapping),
         locationsList |-> getUniqueLocations(data),
         skillCounts |-> calculateSkillCounts(data),
         filteredCandidates |-> data]

\* the state that the cache path of loadData sets, lines 213-258; an absent
\* entry reads as an empty value
cachedState(storage) ==
    LET skillMap == OrEmpty(getFromCache(storage, "SKILL_MAPPING"))
    IN  [candidates |-> OrEmpty(getFromCache(storage, "CANDIDATES")),
         originalToNormalizedMap |-> skillMap,
         groupedSkillsMap |-> normalizedToGroupMap(skillMap),
         skillsList |-> OrEmpty(getFromCache(storage, "SKILLS_LIST")),
         locationsList |-> OrEmpty(getFromCache(storage, "LOCATIONS")),
         skillCounts |-> OrEmpty(getFromCache(storage, "SKILL_COUNTS")),
         filteredCandidates |-> OrEmpty(getFromCache(storage, "CANDIDATES"))]

\* the entries that lines 305-310 write; saveToCache swallows the error of a
\* write that fails, and the entry keeps what it had
savedStorage(storage, state, time, failed) ==
    LET written ==
          [key \in CACHE_KEYS |->
              CASE key = "CANDIDATES" ->
                      Some([i \in DOMAIN state.candidates |->
                               JsonCandidate(state.candidates[i])])
                [] key = "SKILL_MAPPING" ->
                      Some(ObjectFromEntries(state.originalToNormalizedMap))
                [] key = "LOCATIONS" ->
                      Some([i \in DOMAIN state.locationsList |->
                               [state.locationsList[i] EXCEPT !.coordinates =
                                   IF IsPresent(@)
                                   THEN Some([lat |-> JsonNumber(@[1].lat),
                                              lng |-> JsonNumber(@[1].lng)])
                                   ELSE @]])
                [] key = "SKILL_COUNTS" -> Some(ObjectFromEntries(state.skillCounts))
                [] key = "SKILLS_LIST" -> Some(state.skillsList)
                [] key = "CACHED_TIMESTAMP" -> Some(time)]
    IN  [key \in CACHE_KEYS |-> IF key \in failed THEN storage[key] ELSE written[key]]

(***************************************************************************)
(* pages/Dashboard.tsx: the state of the page, loadData and the filter     *)
(* effect.  The setters of one handler and the effects that the next       *)
(* render runs are one step.  A pending setTimeout callback is the record  *)
(* of the values that its closure holds.                                   *)
(***************************************************************************)
\* the requirement of lines 59-66, shortened
initialFilters ==
    [emptyFilter EXCEPT !.jobRequirement = <<"S","e","e","k","i","n","g"," ","a","n"," ","A","I"," ","E","n","g","i","n","e","e","r"," ","w","i","t","h"," ","P","y","t","h","o","n">>]

ItemsPerPage == 1     \* candidates on a page; itemsPerPage of line 56 is 50

\* Math.ceil(count / itemsPerPage)
pagesOf(count, itemsPerPage) == (count + itemsPerPage - 1) \div itemsPerPage

\* faulty variant of paginate: the first page whatever the current page
paginate_FirstPage(list, p) ==
    SubSeq(list, 1, IF p.itemsPerPage < Len(list) THEN p.itemsPerPage ELSE Len(list))

\* the effect of lines 411-415: the slice of the current page
paginate(list, p) ==
    LET start == (p.currentPage - 1) * p.itemsPerPage
        end == start + p.itemsPerPage
    IN  SubSeq(list, start + 1, IF end < Len(list) THEN end ELSE Len(list))

\* useState of lines 44-80
DashboardIdle ==
    /\ groupedSkillsMap = <<>>
    /\ skillsList = <<>>
    /\ locationsList = <<>>
    /\ skillCounts = <<>>
    /\ isCacheLoaded = FALSE
    /\ filteredCandidates = <<>>
    /\ filters = initialFilters
    /\ sortOption = [field |-> "score", direction |-> "desc"]
    /\ userLocation = None
    /\ timers = <<>>
    /\ burst = 0
    /\ recomputations = 0
    /\ pagination = [currentPage |-> 1, itemsPerPage |-> ItemsPerPage, totalPages |-> 1]
    /\ paginatedCandidates = <<>>

\* no page session yet, nothing cached
LoadIdle ==
    /\ localStorage = emptyStorage
    /\ now = 1
    /\ remoteData = <<>>
    /\ loadedFrom = <<>>

\* candidate.computed with the new score, lines 336-344
scored(c, req) ==
    [c EXCEPT !.computed =
        Some([score |-> calculateTotalCandidateScore(c, req),
              experience_level |->
                 IF experienceLevelOf(c) # "" THEN experienceLevelOf(c)
                 ELSE "No Experience",
              employment_status |->
                 IF employmentStatusOf(c) # "" THEN employmentStatusOf(c)
                 ELSE "Unemployed"])]

getFilteredAndScoredCandidates(cands, f, option, location) ==
    LET filtered == filterCandidates(cands, f)
        scoredCandidates ==
            [i \in DOMAIN filtered |-> scored(filtered[i], f.jobRequirement)]
    IN  sortCandidates(scoredCandidates, option, location)

\* what the callback of line 396 holds
Closure(cands, f, option, location) ==
    [normalizedCandidates |-> cands, filters |-> f, sortOption |-> option,
     userLocation |-> location]

\* faulty variant of filterEffect: the cleanup does not clear the timeout
filterEffect_NoClearTimeout(pending, loaded, cands, f, option, location) ==
    IF ~loaded \/ cands = <<>> THEN pending
    ELSE Append(pending, Closure(cands, f, option, location))

\* the effect of lines 352-408 after a render that changed one of its
\* dependencies: the cleanup clears the pending timeout, then a new one is
\* set unless the data is not loaded or empty
filterEffect(pending, loaded, cands, f, option, location) ==
    IF ~loaded \/ cands = <<>> THEN <<>>
    ELSE <<Closure(cands, f, option, location)>>

MaxLoadCandidates == 2     \* candidates that fetchCandidatesData resolves to

\* data/candidatesData.ts, calculateCandidateScore: the score of the fetched
\* record, up to 50 points for experience, 30 for skills, 20 for projects
calculateCandidateScore(c) ==
    LET experienceScore == MathMin(Rat(c.total_we_months, 2), Num(50))
        skillsCount == Cardinality(Range(SkillsOf(c)))
        skillsScore == MathMin(Num(skillsCount * 3), Num(30))
        projectScore == MathMin(Num(Len(OrEmpty(c.projects)) * 5), Num(20))
    IN  MathRound(Add(Add(experienceScore, skillsScore), projectScore))

\* a Candidate as fetchCandidatesData builds it, lines 54-74; status is what
\* determineEmploymentStatus gives for the is_current flags of the record
Applicant(name, location, coords, we, projects, months, status) ==
    LET candidateData ==
          [name |-> name, location |-> location, location_coordinates |-> coords,
           error |-> None, work_experience |-> we, projects |-> projects,
           total_we_months |-> months, computed |-> None]
    IN  [candidateData EXCEPT !.computed =
            Some([score |-> calculateCandidateScore(candidateData),
                  experience_level |-> categorizeExperience(months),
                  employment_status |-> status])]

\* variants of one skill in two candidates, a skill that is a number with and
\* without a dot, a candidate without location, two candidates of one
\* location with different coordinates
Ada == Applicant(<<"a","d","a">>, <<"R","o","m","e">>, Coordinates(Num(1), Num(0)),
                 Some(<<ExpWithSkills(Some(<< <<"R","e","a","c","t">>, <<"7",".">> >>))>>),
                 Some(<<ProjWithSkills(Some(<< <<"R","e","a","c","t","J","S">> >>))>>),
                 24, "Employed")
Ben == Applicant(<<"B","e","n">>, <<>>, None,
                 Some(<<ExpWithSkills(Some(<< <<"7">>, <<"r","e","a","c","t">> >>))>>), None,
                 0, "Unemployed")
Cleo == Applicant(<<"C","l","e","o">>, <<"R","o","m","e">>, Coordinates(Num(3), Num(0)),
                  None, Some(<<ProjWithSkills(Some(<< <<"J","S">>, <<>>, <<"P","y","t","h","o","n">> >>))>>),
                  60, "Unemployed")

LoadCandidateSamples == {Ada, Ben, Cleo}

MaxSessions == 3     \* page sessions, each with one run of loadData

\* loadData with a state to set, then the render and its effects
SetLoaded(state) ==
    /\ candidates' = state.candidates
    /\ originalToNormalizedMap' = state.originalToNormalizedMap
    /\ groupedSkillsMap' = state.groupedSkillsMap
    /\ skillsList' = state.skillsList
    /\ locationsList' = state.locationsList
    /\ skillCounts' = state.skillCounts
    /\ filteredCandidates' = state.filteredCandidates
    /\ isCacheLoaded' = TRUE
    /\ timers' = filterEffect(timers, TRUE,
                              normalizedCandidatesOf(state.candidates,
                                                     state.originalToNormalizedMap),
                              filters, sortOption, userLocation)
    /\ burst' = 0
    /\ recomputations' = 0
    /\ pagination' = [pagination EXCEPT !.totalPages =
                         pagesOf(Len(state.candidates), pagination.itemsPerPage)]
    /\ paginatedCandidates' = paginate(state.filteredCandidates, pagination')

\* no write fails, or the write of one entry fails
SaveFailures ==
    {{}} \cup {{key} : key \in CACHE_KEYS \ {"CACHED_TIMESTAMP"}}

\* the effect of lines 208-321, once per page session
LoadData ==
    /\ ~isCacheLoaded
    /\ Len(loadedFrom) < MaxSessions
    /\ IF cacheUsable(localStorage, now)
       THEN /\ SetLoaded(cachedState(localStorage))
            /\ loadedFrom' = Append(loadedFrom, "cache")
            /\ UNCHANGED localStorage
       ELSE /\ SetLoaded(freshState(remoteData))
            /\ loadedFrom' = Append(loadedFrom, "fresh")
            /\ \E failed \in SaveFailures :
                  localStorage' = savedStorage(localStorage, freshState(remoteData),
                                               now, failed)
    /\ UNCHANGED <<pc, now, remoteData, filters, sortOption, userLocation>>
    /\ UNCHANGED <<rawSkill, normalizedSkill>>
    /\ UNCHANGED <<scoreVars, similarityVars, clusterVars>>
    /\ UNCHANGED <<filterVars, sortVars, experienceVars, panelVars>>

\* the page state of a new session
ResetPage ==
    /\ candidates' = <<>>
    /\ originalToNormalizedMap' = <<>>
    /\ groupedSkillsMap' = <<>>
    /\ skillsList' = <<>>
    /\ locationsList' = <<>>
    /\ skillCounts' = <<>>
    /\ isCacheLoaded' = FALSE
    /\ filteredCandidates' = <<>>
    /\ filters' = initialFilters
    /\ sortOption' = [field |-> "score", direction |-> "desc"]
    /\ userLocation' = None
    /\ timers' = <<>>
    /\ burst' = 0
    /\ recomputations' = 0
    /\ pagination' = [currentPage |-> 1, itemsPerPage |-> ItemsPerPage, totalPages |-> 1]
    /\ paginatedCandidates' = <<>>

\* one millisecond, a millisecond less than the expiration, the expiration
ReloadDelays == {1, CACHE_EXPIRATION - 1, CACHE_EXPIRATION}

\* the data of the server some time later: the same, or with one more
\* candidate
DataUpdates(data) ==
    {data} \cup (IF Len(data) < MaxLoadCandidates
                 THEN {Append(data, c) : c \in LoadCandidateSamples}
                 ELSE {})

\* the user opens the page again after some time; the data of the server may
\* have changed meanwhile
Reload ==
    /\ isCacheLoaded
    /\ Len(loadedFrom) < MaxSessions
    /\ \E delay \in ReloadDelays : now' = now + delay
    /\ remoteData' \in DataUpdates(remoteData)
    /\ ResetPage
    /\ UNCHANGED <<pc, localStorage, loadedFrom>>
    /\ UNCHANGED <<rawSkill, normalizedSkill>>
    /\ UNCHANGED <<scoreVars, similarityVars, clusterVars>>
    /\ UNCHANGED <<filterVars, sortVars, experienceVars, panelVars>>

\* handleClearCache: clearCache, then window.location.reload()
HandleClearCache ==
    /\ isCacheLoaded
    /\ Len(loadedFrom) < MaxSessions
    /\ localStorage' = emptyStorage
    /\ now' = now + 1
    /\ ResetPage
    /\ UNCHANGED <<pc, remoteData, loadedFrom>>
    /\ UNCHANGED <<rawSkill, normalizedSkill>>
    /\ UNCHANGED <<scoreVars, similarityVars, clusterVars>>
    /\ UNCHANGED <<filterVars, sortVars, experienceVars, panelVars>>

\* the timeout of line 396 fires: applyFiltersAndCalculateScores, then the
\* render with its pagination effect.  The candidates of the dashboard
\* specifications have a location, with which sortCandidates raises no
\* error: the catch of line 385 is not entered
ApplyFiltersAndCalculateScores ==
    /\ timers # <<>>
    /\ LET timer == Head(timers)
       IN  filteredCandidates' =
               getFilteredAndScoredCandidates(timer.normalizedCandidates, timer.filters,
                                              timer.sortOption, timer.userLocation)
    /\ pagination' = [pagination EXCEPT
                         !.currentPage = 1,
                         !.totalPages = pagesOf(Len(filteredCandidates'),
                                              pagination.itemsPerPage)]
    /\ paginatedCandidates' = paginate(filteredCandidates', pagination')
    /\ timers' = Tail(timers)
    /\ recomputations' = recomputations + 1
    /\ UNCHANGED <<groupedSkillsMap, skillsList, locationsList, skillCounts,
                   isCacheLoaded, filters, sortOption, userLocation, burst>>
    /\ UNCHANGED <<pc, normalizeVars, loadVars>>
    /\ UNCHANGED <<scoreVars, similarityVars, clusterVars>>
    /\ UNCHANGED <<filterVars, sortVars, experienceVars, panelVars>>

(***************************************************************************)
(* Inputs of the loading specification                                     *)
(***************************************************************************)
\* the page before loadData ran, the storage empty
LoadInit ==
    /\ localStorage = emptyStorage
    /\ now = 1
    /\ remoteData \in SeqsUpTo(LoadCandidateSamples, MaxLoadCandidates)
    /\ loadedFrom = <<>>

(***************************************************************************)
(* Inputs and actions of the dashboard specification                       *)
(***************************************************************************)
MaxBurst == 2     \* changes of the user while one timeout is pending

\* the initial filters, another requirement, a search, a skill of the filter
\* panel without requirement
FilterChanges ==
    { initialFilters,
      [initialFilters EXCEPT !.jobRequirement = <<"R","e","a","c","t"," ","d","e","v","e","l","o","p","e","r">>],
      [initialFilters EXCEPT !.search = <<"r","o","m">>],
      [emptyFilter EXCEPT !.skills = << <<"R","e","a","c","t">> >>] }

SortChanges ==
    { [field |-> "score", direction |-> "desc"], [field |-> "name", direction |-> "asc"],
      [field |-> "distance", direction |-> "asc"],
      [field |-> "experience", direction |-> "desc"] }

LocationChanges == {None, Coordinates(Num(0), Num(0))}

\* the page before loadData ran; the request fails or brings three candidates
DashboardInit ==
    /\ localStorage = emptyStorage
    /\ now = 1
    /\ remoteData \in {<<>>, <<Ada, Ben, Cleo>>, <<Cleo, Ada>>}
    /\ loadedFrom = <<>>

\* the render after a handler set filters, sortOption or userLocation: the
\* filter effect runs again
Rerender(f, option, location) ==
    /\ isCacheLoaded
    /\ timers = <<>> \/ burst < MaxBurst
    /\ filters' = f
    /\ sortOption' = option
    /\ userLocation' = location
    /\ timers' = filterEffect(timers, isCacheLoaded,
                              normalizedCandidatesOf(candidates, originalToNormalizedMap),
                              f, option, location)
    /\ burst' = IF timers = <<>> THEN 1 ELSE burst + 1
    /\ recomputations' = 0
    /\ UNCHANGED <<groupedSkillsMap, skillsList, locationsList, skillCounts,
                   isCacheLoaded, filteredCandidates, pagination, paginatedCandidates>>
    /\ UNCHANGED <<pc, normalizeVars, loadVars>>
    /\ UNCHANGED <<scoreVars, similarityVars, clusterVars>>
    /\ UNCHANGED <<filterVars, sortVars, experienceVars, panelVars>>

\* handleFilterChange(newFilters)
HandleFilterChange == \E newFilters \in FilterChanges : Rerender(newFilters, sortOption, userLocation)

\* handleSortChange(newSortOption)
HandleSortChange ==
    \E newSortOption \in SortChanges : Rerender(filters, newSortOption, userLocation)

\* handleLocationChange(location): a value equal to the state starts no render
HandleLocationChange ==
    \E location \in LocationChanges \ {userLocation} :
        Rerender(filters, sortOption, location)


\* getPageNumbers, lines 96-128: the buttons of the page numbers, an ellipsis
\* as None
getPageNumbers(p) ==
    LET currentPage == p.currentPage
        totalPages == p.totalPages
        startPage == IF 2 > currentPage - 1 THEN 2 ELSE currentPage - 1
        endPage == IF totalPages - 1 < currentPage + 1 THEN totalPages - 1
                   ELSE currentPage + 1
    IN  << Some(1) >>
        \o (IF startPage > 2 THEN << None >> ELSE <<>>)
        \o [i \in 1..(IF endPage >= startPage THEN endPage - startPage + 1 ELSE 0) |->
               Some(startPage + i - 1)]
        \o (IF endPage < totalPages - 1 THEN << None >> ELSE <<>>)
        \o (IF totalPages > 1 THEN << Some(totalPages) >> ELSE <<>>)

\* handlePageChange(newPage), then the render with its pagination effect
HandlePageChange(newPage) ==
    /\ isCacheLoaded
    /\ pagination' = [pagination EXCEPT !.currentPage = newPage]
    /\ paginatedCandidates' = paginate(filteredCandidates, pagination')
    /\ UNCHANGED <<groupedSkillsMap, skillsList, locationsList, skillCounts,
                   isCacheLoaded, filteredCandidates, filters, sortOption,
                   userLocation, timers, burst, recomputations>>
    /\ UNCHANGED <<pc, normalizeVars, loadVars>>
    /\ UNCHANGED <<scoreVars, similarityVars, clusterVars>>
    /\ UNCHANGED <<filterVars, sortVars, experienceVars, panelVars>>

\* handlePreviousPage; renderPagination shows no button for one page
HandlePreviousPage ==
    /\ pagination.totalPages > 1
    /\ pagination.currentPage > 1
    /\ HandlePageChange(pagination.currentPage - 1)

\* handleNextPage
HandleNextPage ==
    /\ pagination.totalPages > 1
    /\ pagination.currentPage < pagination.totalPages
    /\ HandlePageChange(pagination.currentPage + 1)

\* onClick of a page number, line 181
HandlePageNumberClick ==
    /\ pagination.totalPages > 1
    /\ \E i \in DOMAIN getPageNumbers(pagination) :
          /\ IsPresent(getPageNumbers(pagination)[i])
          /\ HandlePageChange(getPageNumbers(pagination)[i][1])
(***************************************************************************)
(* components/dashboard/FilterPanel.tsx: the local state of the panel, the *)
(* hook useDebounce, the two effects and the handlers.  The props filters  *)
(* and onFilterChange are the state filters of the dashboard and its       *)
(* setter.  A handler, the render that its setters cause and the effects   *)
(* of that render, repeated until no effect sets a state, are one step.    *)
(* Time passes in steps of TimeStep milliseconds; a pending setTimeout     *)
(* callback is a record of the milliseconds left and of the values that    *)
(* its closure holds.                                                      *)
(***************************************************************************)
SEARCH_DEBOUNCE == 300     \* useDebounce(localFilters.search, 300)
APPLY_DELAY == 100         \* the timeout of handleApplyJobRequirement
UPDATING_DELAY == 500      \* the timeout that ends the loading state
TimeStep == 100            \* milliseconds between two observations

\* the record of a pending timeout
Timeout(kind, delay, value, snapshot, requirement) ==
    [kind |-> kind, due |-> delay, value |-> value, filters |-> snapshot,
     jobRequirement |-> requirement]

\* the effect of useDebounce, lines 9-17: the cleanup of the last run clears
\* its timeout, then a timeout is set for the value
useDebounceEffect(pending, value) ==
    Append(SelectSeq(pending, LAMBDA t : t.kind # "debounce"),
           Timeout("debounce", SEARCH_DEBOUNCE, value, emptyFilter, <<>>))

\* the condition of line 65, for the effect of lines 64-71
appliesDebouncedSearch(p) == p.debouncedValue # p.filters.search

\* the effects of one render, in the order of the hooks: useDebounce when
\* the value changed, lines 58-61 when filters changed, lines 64-71 when
\* debouncedSearchTerm or filters changed.  The setters take effect at the
\* next render: every effect reads the values of this render.
runEffects(p, valueChanged, filtersChanged, debouncedChanged) ==
    [filters |->
        IF (debouncedChanged \/ filtersChanged) /\ appliesDebouncedSearch(p)
        THEN [p.filters EXCEPT !.search = p.debouncedValue]
        ELSE p.filters,
     localFilters |-> IF filtersChanged THEN p.filters ELSE p.localFilters,
     localJobRequirement |->
        IF filtersChanged THEN p.filters.jobRequirement ELSE p.localJobRequirement,
     debouncedValue |-> p.debouncedValue,
     timers |-> IF valueChanged THEN useDebounceEffect(p.timers, p.localFilters.search)
                ELSE p.timers]

RECURSIVE render(_, _, _, _)
\* the renders after a handler: one after the other until no dependency of
\* an effect has changed.  filters is compared by identity: every call of
\* onFilterChange hands over a new object
render(p, valueChanged, filtersChanged, debouncedChanged) ==
    IF ~(valueChanged \/ filtersChanged \/ debouncedChanged) THEN p
    ELSE LET q == runEffects(p, valueChanged, filtersChanged, debouncedChanged)
         IN  render(q, q.localFilters.search # p.localFilters.search,
                    (debouncedChanged \/ filtersChanged) /\ appliesDebouncedSearch(p),
                    FALSE)

\* filters.x.includes(v) ? filters.x.filter(e => e !== v) : [...filters.x, v]
toggle(list, v) ==
    IF v \in Range(list) THEN SelectSeq(list, LAMBDA e : e # v) ELSE Append(list, v)

\* hasActiveFilters, lines 176-184
hasActiveFilters(f) ==
    \/ f.search # <<>>
    \/ Len(f.experience) > 0
    \/ Len(f.skills) > 0
    \/ Len(f.location) > 0
    \/ Len(f.employmentStatus) > 0

(***************************************************************************)
(* Inputs and actions of the filter panel specification                    *)
(***************************************************************************)
\* what the user types in the search box
SearchTexts == {<<>>, <<"a">>, <<"a","b">>}
\* what the user types in the requirement box
RequirementTexts == {initialFilters.jobRequirement, <<"R","e","a","c","t"," ","d","e","v","e","l","o","p","e","r">>}

\* useState of lines 48-55 at the mount of the panel
PanelIdle ==
    /\ localFilters = initialFilters
    /\ localJobRequirement = initialFilters.jobRequirement
    /\ debouncedValue = <<>>
    /\ isJobRequirementUpdating = FALSE
    /\ panelTimers = <<>>
    /\ lastInput = "none"

\* the panel after its first render: the effect of useDebounce has set its
\* timeout, the other effects found nothing to set
PanelInit ==
    /\ localFilters = initialFilters
    /\ localJobRequirement = initialFilters.jobRequirement
    /\ debouncedValue = <<>>
    /\ isJobRequirementUpdating = FALSE
    /\ panelTimers = useDebounceEffect(<<>>, initialFilters.search)
    /\ lastInput = "none"

\* the dashboard that shows the panel: loadData has finished with an empty
\* list, for which the filter effect of the dashboard returns at line 354
PanelDashboard ==
    /\ groupedSkillsMap = <<>>
    /\ skillsList = <<>>
    /\ locationsList = <<>>
    /\ skillCounts = <<>>
    /\ isCacheLoaded = TRUE
    /\ filteredCandidates = <<>>
    /\ filters = initialFilters
    /\ sortOption = [field |-> "score", direction |-> "desc"]
    /\ userLocation = None
    /\ timers = <<>>
    /\ burst = 0
    /\ recomputations = 0
    /\ pagination = [currentPage |-> 1, itemsPerPage |-> ItemsPerPage, totalPages |-> 0]
    /\ paginatedCandidates = <<>>

\* the state of the panel and its props
panelState ==
    [filters |-> filters, localFilters |-> localFilters,
     localJobRequirement |-> localJobRequirement, debouncedValue |-> debouncedValue,
     timers |-> panelTimers]

\* the state after the renders that follow a handler of the panel
SetPanel(p, input) ==
    /\ filters' = p.filters
    /\ localFilters' = p.localFilters
    /\ localJobRequirement' = p.localJobRequirement
    /\ debouncedValue' = p.debouncedValue
    /\ panelTimers' = p.timers
    /\ lastInput' = input
    /\ UNCHANGED <<groupedSkillsMap, skillsList, locationsList, skillCounts,
                   isCacheLoaded, filteredCandidates, sortOption, userLocation,
                   timers, burst, recomputations, pagination, paginatedCandidates>>
    /\ UNCHANGED <<pc, normalizeVars, loadVars>>
    /\ UNCHANGED <<scoreVars, similarityVars, clusterVars>>
    /\ UNCHANGED <<filterVars, sortVars, experienceVars>>

\* handleSearchChange: the user edits the search box
HandleSearchChange ==
    \E text \in SearchTexts \ {localFilters.search} :
        /\ SetPanel(render([panelState EXCEPT !.localFilters.search = text],
                           TRUE, FALSE, FALSE), "search")
        /\ UNCHANGED isJobRequirementUpdating

\* onClick of the X button of the search box, lines 333-341; the button is
\* rendered while localFilters.search is not empty
ClearSearch ==
    /\ Truthy(localFilters.search)
    /\ SetPanel(render([panelState EXCEPT !.localFilters.search = <<>>,
                                          !.filters.search = <<>>],
                       TRUE, TRUE, FALSE), "clear")
    /\ UNCHANGED isJobRequirementUpdating

\* clearFilters, lines 156-174; the button is rendered while
\* hasActiveFilters()
ClearFilters ==
    /\ hasActiveFilters(filters)
    /\ SetPanel(render([panelState EXCEPT
                           !.localFilters =
                               [emptyFilter EXCEPT !.jobRequirement =
                                                      localFilters.jobRequirement],
                           !.filters =
                               [emptyFilter EXCEPT !.jobRequirement =
                                                      filters.jobRequirement]],
                       localFilters.search # <<>>, TRUE, FALSE), "clear")
    /\ UNCHANGED isJobRequirementUpdating

\* handleLocalJobRequirementChange: the user edits the requirement box
HandleLocalJobRequirementChange ==
    \E text \in RequirementTexts \ {localJobRequirement} :
        /\ SetPanel([panelState EXCEPT !.localJobRequirement = text], "requirement")
        /\ UNCHANGED isJobRequirementUpdating

\* handleApplyJobRequirement up to its setTimeout, lines 84-90; the button
\* is disabled while isJobRequirementUpdating
HandleApplyJobRequirement ==
    /\ ~isJobRequirementUpdating
    /\ localJobRequirement # filters.jobRequirement
    /\ isJobRequirementUpdating' = TRUE
    /\ SetPanel([panelState EXCEPT !.timers =
                    Append(@, Timeout("apply", APPLY_DELAY, <<>>, filters,
                                      localJobRequirement))],
                "apply")

\* a handler of a checkbox list: onFilterChange with the entry toggled
ToggleFilter(f, input) ==
    /\ SetPanel(render([panelState EXCEPT !.filters = f], FALSE, TRUE, FALSE), input)
    /\ UNCHANGED isJobRequirementUpdating

\* handleExperienceChange(level)
HandleExperienceChange ==
    ToggleFilter([filters EXCEPT !.experience = toggle(@, "1-3 years")], "experience")

\* handleSkillChange(skill)
HandleSkillChange ==
    ToggleFilter([filters EXCEPT !.skills = toggle(@, <<"R","e","a","c","t">>)], "skills")

\* handleLocationChange(location) of the panel
HandleLocationFilterChange ==
    ToggleFilter([filters EXCEPT !.location = toggle(@, <<"R","o","m","e">>)], "location")

\* handleEmploymentStatusChange(status)
HandleEmploymentStatusChange ==
    ToggleFilter([filters EXCEPT !.employmentStatus = toggle(@, "Employed")],
                 "employmentStatus")

\* the pending timeouts but the i-th
WithoutTimeout(pending, i) ==
    SubSeq(pending, 1, i - 1) \o SubSeq(pending, i + 1, Len(pending))

\* the timeout of useDebounce fires: setDebouncedValue(value), line 11
DebounceFires ==
    \E i \in DOMAIN panelTimers :
        /\ panelTimers[i].kind = "debounce"
        /\ panelTimers[i].due <= 0
        /\ SetPanel(render([panelState EXCEPT
                               !.debouncedValue = panelTimers[i].value,
                               !.timers = WithoutTimeout(panelTimers, i)],
                           FALSE, FALSE, panelTimers[i].value # debouncedValue),
                    lastInput)
        /\ UNCHANGED isJobRequirementUpdating

\* the timeout of handleApplyJobRequirement fires, lines 91-99:
\* onFilterChange with the filters of the click and the requirement
ApplyJobRequirementFires ==
    \E i \in DOMAIN panelTimers :
        /\ panelTimers[i].kind = "apply"
        /\ panelTimers[i].due <= 0
        /\ SetPanel(render([panelState EXCEPT
                               !.filters =
                                   [panelTimers[i].filters EXCEPT !.jobRequirement =
                                        panelTimers[i].jobRequirement],
                               !.timers =
                                   Append(WithoutTimeout(panelTimers, i),
                                          Timeout("updated", UPDATING_DELAY, <<>>,
                                                  emptyFilter, <<>>))],
                           FALSE, TRUE, FALSE),
                    lastInput)
        /\ UNCHANGED isJobRequirementUpdating

\* the inner timeout fires: setIsJobRequirementUpdating(false), line 97
UpdatingEnds ==
    \E i \in DOMAIN panelTimers :
        /\ panelTimers[i].kind = "updated"
        /\ panelTimers[i].due <= 0
        /\ isJobRequirementUpdating' = FALSE
        /\ SetPanel([panelState EXCEPT !.timers = WithoutTimeout(panelTimers, i)],
                    lastInput)

\* TimeStep milliseconds pass without an event
Tick ==
    /\ panelTimers # <<>>
    /\ \A i \in DOMAIN panelTimers : panelTimers[i].due > 0
    /\ SetPanel([panelState EXCEPT !.timers =
                    [i \in DOMAIN panelTimers |->
                        [panelTimers[i] EXCEPT !.due = @ - TimeStep]]],
                lastInput)
    /\ UNCHANGED isJobRequirementUpdating

(***************************************************************************)
(* The specifications                                                      *)
(***************************************************************************)
InitScore == pc = "start" /\ ScoreInit /\ SimilarityIdle /\ ClusterIdle /\ NormalizeIdle
    /\ FilterIdle /\ SortIdle /\ ExperienceIdle /\ PanelIdle /\ LoadIdle /\ DashboardIdle

NextScore ==
    \/ CalculateJobRequirementMatchScore
    \/ CalculateTotalCandidateScore
    \/ CalculateTFIDF

SpecScore == InitScore /\ [][NextScore]_vars

InitSimilarity == pc = "start" /\ SimilarityInit /\ ScoreIdle /\ ClusterIdle /\ NormalizeIdle
    /\ FilterIdle /\ SortIdle /\ ExperienceIdle /\ PanelIdle /\ LoadIdle /\ DashboardIdle

NextSimilarity == GetSkillSimilarityScore

SpecSimilarity == InitSimilarity /\ [][NextSimilarity]_vars

InitCluster == pc = "start" /\ ClusterInit /\ ScoreIdle /\ SimilarityIdle /\ NormalizeIdle
    /\ FilterIdle /\ SortIdle /\ ExperienceIdle /\ PanelIdle /\ LoadIdle /\ DashboardIdle

NextCluster == GroupSimilarSkills

SpecCluster == InitCluster /\ [][NextCluster]_vars

InitNormalize == pc = "start" /\ NormalizeInit /\ ScoreIdle /\ SimilarityIdle /\ ClusterIdle
    /\ FilterIdle /\ SortIdle /\ ExperienceIdle /\ PanelIdle /\ LoadIdle /\ DashboardIdle

NextNormalize ==
    \/ CreateSkillNormalizationMapping
    \/ NormalizeSkill

SpecNormalize == InitNormalize /\ [][NextNormalize]_vars

InitFilter ==
    /\ pc = "start" /\ FilterInit
    /\ ScoreIdle /\ SimilarityIdle /\ ClusterIdle /\ NormalizeIdle
    /\ SortIdle /\ ExperienceIdle /\ PanelIdle /\ LoadIdle /\ DashboardIdle

NextFilter == FilterCandidates

SpecFilter == InitFilter /\ [][NextFilter]_vars

InitSort ==
    /\ pc = "start" /\ SortInit
    /\ ScoreIdle /\ SimilarityIdle /\ ClusterIdle /\ NormalizeIdle
    /\ FilterIdle /\ ExperienceIdle /\ PanelIdle /\ LoadIdle /\ DashboardIdle

NextSort == SortCandidates

SpecSort == InitSort /\ [][NextSort]_vars

InitExperience ==
    /\ pc = "start" /\ ExperienceInit
    /\ ScoreIdle /\ SimilarityIdle /\ ClusterIdle /\ NormalizeIdle
    /\ FilterIdle /\ SortIdle /\ PanelIdle /\ LoadIdle /\ DashboardIdle

NextExperience == CategorizeExperience

SpecExperience == InitExperience /\ [][NextExperience]_vars

InitLoad ==
    /\ pc = "start" /\ LoadInit /\ DashboardIdle /\ NormalizeIdle
    /\ ScoreIdle /\ SimilarityIdle /\ ClusterIdle
    /\ FilterIdle /\ SortIdle /\ ExperienceIdle /\ PanelIdle

NextLoad ==
    \/ LoadData
    \/ Reload
    \/ HandleClearCache
    \/ ApplyFiltersAndCalculateScores

SpecLoad == InitLoad /\ [][NextLoad]_vars

InitDashboard ==
    /\ pc = "start" /\ DashboardInit /\ DashboardIdle /\ NormalizeIdle
    /\ ScoreIdle /\ SimilarityIdle /\ ClusterIdle
    /\ FilterIdle /\ SortIdle /\ ExperienceIdle /\ PanelIdle

NextDashboard ==
    \/ LoadData
    \/ HandleFilterChange
    \/ HandleSortChange
    \/ HandleLocationChange
    \/ ApplyFiltersAndCalculateScores
    \/ HandlePreviousPage
    \/ HandleNextPage
    \/ HandlePageNumberClick

SpecDashboard == InitDashboard /\ [][NextDashboard]_vars


InitPanel ==
    /\ pc = "start" /\ PanelInit /\ PanelDashboard /\ LoadIdle /\ NormalizeIdle
    /\ ScoreIdle /\ SimilarityIdle /\ ClusterIdle
    /\ FilterIdle /\ SortIdle /\ ExperienceIdle

NextPanel ==
    \/ HandleSearchChange
    \/ ClearSearch
    \/ ClearFilters
    \/ HandleLocalJobRequirementChange
    \/ HandleApplyJobRequirement
    \/ HandleExperienceChange
    \/ HandleSkillChange
    \/ HandleLocationFilterChange
    \/ HandleEmploymentStatusChange
    \/ DebounceFires
    \/ ApplyJobRequirementFires
    \/ UpdatingEnds
    \/ Tick

SpecPanel == InitPanel /\ [][NextPanel]_vars
(***************************************************************************)
(* Scoring: the claims                                                     *)
(***************************************************************************)
requirementTerms == processJobRequirement(jobRequirement)

\* C1: calculateTotalCandidateScore returns an integer in [0, 100] for every
\* candidate and every requirement text, the empty requirement, a requirement
\* with no usable terms and a candidate with no work experience, projects or
\* skills included.
C1_TotalScoreIsIntegerIn0To100 ==
    pc = "scored" =>
        /\ IsInteger(totalScore)
        /\ 0 <= totalScore.n
        /\ totalScore.n <= 100

\* C2: calculateJobRequirementMatchScore returns 0 whenever the requirement
\* tokenizes to zero requirement terms, a non-empty requirement of stop words,
\* punctuation or short words included.
C2_ZeroTermsGiveZero ==
    (pc = "matched" /\ Len(requirementTerms) = 0) => matchScore = Num(0)

RECURSIVE C3_Sum(_)
\* 1.5 for every term that is a substring of some lowercased skill, otherwise
\* TFIDF(term, candidate document, single-document corpus) x 0.5
C3_Sum(terms) ==
    IF terms = <<>> THEN Num(0)
    ELSE Add(C3_Sum(Tail(terms)),
             IF \E i \in DOMAIN candidateSkills(candidate) :
                    includes(toLowerCase(candidateSkills(candidate)[i]), Head(terms))
             THEN Rat(3, 2)
             ELSE Mul(calculateTFIDF(Head(terms), candidateDocument(candidate),
                                     <<CandidateWords(candidate, TRUE)>>),
                      Rat(1, 2)))

C3_AllTermsExact ==
    \A j \in DOMAIN requirementTerms :
        \E i \in DOMAIN candidateSkills(candidate) :
            includes(toLowerCase(candidateSkills(candidate)[i]), requirementTerms[j])

\* C3: for a requirement with n >= 1 terms the match score is
\* min(sum / (n x 1.5), 1), where sum adds 1.5 per exact skill match and
\* TFIDF x 0.5 otherwise; the result is in [0,1], and is 1 when every term is
\* an exact skill match.
C3_MatchScoreFormulaAndRange ==
    (pc = "matched" /\ Len(requirementTerms) >= 1) =>
        /\ matchScore = MathMin(Div(C3_Sum(requirementTerms),
                                   Mul(Num(Len(requirementTerms)), Rat(3, 2))),
                               Num(1))
        /\ Leq(Num(0), matchScore)
        /\ Leq(matchScore, Num(1))
        /\ C3_AllTermsExact => matchScore = Num(1)

\* C4: for an empty document calculateTF and calculateTFIDF return 0 for every
\* term, so the match score of a candidate with an empty document against a
\* requirement with at least one term is 0.
C4_EmptyDocumentGivesZero ==
    Len(candidateDocument(candidate)) = 0 =>
        /\ pc = "tfidf" => (tf = Num(0) /\ tfidf = Num(0))
        /\ (pc = "matched" /\ Len(requirementTerms) >= 1) => matchScore = Num(0)

(***************************************************************************)
(* Similarity: the claims                                                  *)
(***************************************************************************)
\* the score x is the rational t
ScoreIs(x, t) == SurdGeq(x, t) /\ SurdLeq(x, t)

\* getSkillSimilarityScore(skillA, skillB) reaches the weighted average
WeightedBranch ==
    LET processed1 == preprocessText(skillA)
        processed2 == preprocessText(skillB)
    IN  /\ processed1 # processed2
        /\ ~includes(processed1, processed2)
        /\ ~includes(processed2, processed1)

\* C5: getSkillSimilarityScore is symmetric: the score of (a, b) is the score
\* of (b, a) for all skill strings a and b.
C5_SimilarityIsSymmetric ==
    pc = "compared" => similarity = getSkillSimilarityScore(skillB, skillA)

\* two different strings compared by the weighted average, with a cosine that
\* is not rational
C5_Witness ==
    /\ pc = "compared"
    /\ WeightedBranch
    /\ toLowerCase(skillA) # toLowerCase(skillB)
    /\ similarity.coef.n > 0
    /\ similarity = getSkillSimilarityScore(skillB, skillA)

\* C6: getSkillSimilarityScore returns exactly 1.0 whenever the two inputs have
\* the same normalized form; so the score of (a, a) is 1.0, and two strings
\* that both normalize to the empty string score 1.0.
C6_SameNormalizedFormScoresOne ==
    pc = "compared" =>
        /\ preprocessText(skillA) = preprocessText(skillB) => ScoreIs(similarity, Num(1))
        /\ skillA = skillB => ScoreIs(similarity, Num(1))
        /\ (preprocessText(skillA) = <<>> /\ preprocessText(skillB) = <<>>)
              => ScoreIs(similarity, Num(1))

\* two different strings with the same non-empty normalized form
C6_Witness ==
    /\ pc = "compared"
    /\ skillA # skillB
    /\ toLowerCase(skillA) # toLowerCase(skillB)
    /\ preprocessText(skillA) = preprocessText(skillB)
    /\ preprocessText(skillA) # <<>>
    /\ ScoreIs(similarity, Num(1))

InUnitInterval(x) == SurdGeq(x, Num(0)) /\ SurdLeq(x, Num(1))

allMembers == Concat([j \in DOMAIN clusters |-> clusters[j].value])

C9_RepresentativesMapToThemselves ==
    /\ pc \in {"mapped", "normalized"} =>
          \A j \in DOMAIN originalToNormalizedMap :
              LET r == originalToNormalizedMap[j].value
              IN  /\ MapHas(originalToNormalizedMap, r)
                  /\ MapGet(originalToNormalizedMap, r) = r
                  /\ normalizeSkill(r, originalToNormalizedMap) = r
    /\ pc = "normalized" =>
          /\ normalizedSkill = normalizeSkill(rawSkill, originalToNormalizedMap)
          /\ normalizeSkill(normalizedSkill, originalToNormalizedMap) = normalizedSkill

\* a skill normalized to a representative other than itself
C9_Witness ==
    /\ pc = "normalized"
    /\ MapHas(originalToNormalizedMap, rawSkill)
    /\ normalizedSkill # rawSkill

\* every skill string of every work experience and project of the candidates
C10_ObservedSkills ==
    UNION {
        UNION {Range(OrEmpty(OrEmpty(candidates[i].work_experience)[e].skills)) :
                  e \in DOMAIN OrEmpty(candidates[i].work_experience)}
        \cup
        UNION {Range(OrEmpty(OrEmpty(candidates[i].projects)[p].skills)) :
                  p \in DOMAIN OrEmpty(candidates[i].projects)}
        : i \in DOMAIN candidates }

\* C10: the key set of the map of createSkillNormalizationMapping(candidates)
\* is exactly the set of non-empty skill strings of the candidates' work
\* experiences and projects, and each key maps to exactly one representative,
\* a member of the same cluster as the key.
C10_MapIsTotalOverObservedSkills ==
    pc = "mapped" =>
        /\ MapKeys(originalToNormalizedMap) = {s \in C10_ObservedSkills : s # <<>>}
        /\ Len(originalToNormalizedMap) = Cardinality(MapKeys(originalToNormalizedMap))
        /\ LET skillGroups == groupSimilarSkills(extractAllSkills(candidates), defaultSimilarityThreshold)
           IN  \A j \in DOMAIN originalToNormalizedMap :
                  \E g \in DOMAIN skillGroups :
                      /\ originalToNormalizedMap[j].key \in Range(skillGroups[g].value)
                      /\ originalToNormalizedMap[j].value \in Range(skillGroups[g].value)

\* a data set with an empty skill string and a skill whose representative is
\* another skill
C10_Witness ==
    /\ pc = "mapped"
    /\ <<>> \in C10_ObservedSkills
    /\ \E j \in DOMAIN originalToNormalizedMap :
          originalToNormalizedMap[j].key # originalToNormalizedMap[j].value

(***************************************************************************)
(* Filtering: the claims                                                   *)
(***************************************************************************)
filterDone == pc \in {"filtered", "refiltered"}

\* C11: with the empty filter (empty search, every set-valued field empty)
\* filterCandidates returns exactly the candidates that have no truthy error,
\* in their original order.
C11_EmptyFilterKeepsTheErrorFree ==
    (/\ filterDone
     /\ filterSpec.search = <<>>
     /\ filterSpec.experience = <<>>
     /\ filterSpec.skills = <<>>
     /\ filterSpec.location = <<>>
     /\ filterSpec.employmentStatus = <<>>)
    => filterOutput = SelectSeq(filterInput,
                                LAMBDA c : c.error = None \/ c.error = Some(<<>>))

\* C11 witness: the empty filter dropped a candidate with an error and kept one
\* whose error is the empty string
C11_Witness ==
    /\ filterDone
    /\ filterSpec = emptyFilter
    /\ \E i \in DOMAIN filterInput : filterInput[i].error = Some(<<"b","a","d">>)
    /\ \E i \in DOMAIN filterOutput : filterOutput[i].error = Some(<<>>)
    /\ Len(filterOutput) < Len(filterInput)

\* out picks elements of in at strictly increasing positions
IsSubsequence(out, in) ==
    \E pos \in [DOMAIN out -> DOMAIN in] :
        /\ \A i \in DOMAIN out : out[i] = in[pos[i]]
        /\ \A i, j \in DOMAIN out : i < j => pos[i] < pos[j]

C13_SearchedTexts(c) ==
    {c.name, c.location}
    \cup UNION {Range(OrEmpty(e.skills)) \cup {e.title, e.company} :
                  e \in Range(OrEmpty(c.work_experience))}
    \cup UNION {Range(OrEmpty(p.skills)) \cup {p.name, p.description} :
                  p \in Range(OrEmpty(c.projects))}

\* the skills of a candidate
C13_Skills(c) ==
    UNION {Range(OrEmpty(e.skills)) : e \in Range(OrEmpty(c.work_experience))}
    \cup UNION {Range(OrEmpty(p.skills)) : p \in Range(OrEmpty(c.projects))}

\* sub occurs in text, letter case ignored
C13_OccursIn(sub, text) ==
    \E k \in 0..(Len(text) - Len(sub)) :
        \A i \in 1..Len(sub) : LowerChar(text[k + i]) = LowerChar(sub[i])

\* what the claim asks of a survivor
C13_Satisfies(c, f) ==
    /\ c.error \in {None, Some(<<>>)}
    /\ f.search # <<>> => \E text \in C13_SearchedTexts(c) : C13_OccursIn(f.search, text)
    /\ f.experience # <<>> =>
          /\ c.computed # None
          /\ \E i \in DOMAIN f.experience : f.experience[i] = c.computed[1].experience_level
    /\ f.skills # <<>> => C13_Skills(c) \cap Range(f.skills) # {}
    /\ f.location # <<>> =>
          (IF c.location = <<>> THEN <<"U","n","k","n","o","w","n">> ELSE c.location) \in Range(f.location)
    /\ f.employmentStatus # <<>> =>
          /\ c.computed # None
          /\ \E i \in DOMAIN f.employmentStatus :
                f.employmentStatus[i] = c.computed[1].employment_status

\* C13: a candidate survives filterCandidates if and only if it has no truthy
\* error and satisfies every non-empty filter field: the search is a
\* case-insensitive substring of its name, a skill, its location, a job title,
\* a company, a project name or a project description; its experience level
\* is in the experience set; one of its skills is in the skills set; its
\* location ("Unknown" when absent) is in the location set; its employment
\* status is in the status set.
C13_SurvivorsAreExactlyTheMatches ==
    filterDone =>
        filterOutput = SelectSeq(filterInput, LAMBDA c : C13_Satisfies(c, filterSpec))

\* C13 witness: a filter with a search term that occurs in a company name only
\* and with non-empty skills and location sets kept one candidate and dropped
\* another that has no error
C13_Witness ==
    /\ filterDone
    /\ filterSpec.search = <<"A","C","M","E">>
    /\ filterSpec.skills # <<>>
    /\ filterSpec.location # <<>>
    /\ Len(filterOutput) = 1
    /\ \E i \in DOMAIN filterInput :
          filterInput[i].error = None /\ filterInput[i] # filterOutput[1]

(***************************************************************************)
(* Sorting: the claims                                                     *)
(***************************************************************************)
sortedByDistance ==
    pc = "sorted" /\ sortOrder.field = "distance" /\ sortReference # None

\* the candidate has a numeric latitude and longitude, neither of them NaN
HasValidCoordinates(c) ==
    /\ c.location_coordinates # None
    /\ c.location_coordinates[1].lat.k \in {"num", "inf"}
    /\ c.location_coordinates[1].lng.k \in {"num", "inf"}

\* C14: sorted by distance with a reference location, every candidate without
\* valid numeric coordinates (absent, non-numeric or NaN) stands after every
\* candidate with valid coordinates, ascending and descending.
C14_InvalidCoordinatesSortLast ==
    sortedByDistance =>
        \A i, j \in DOMAIN sortOutput :
            (HasValidCoordinates(sortOutput[i]) /\ ~HasValidCoordinates(sortOutput[j]))
            => i < j

\* C15: sorted by distance with a reference location, the candidates without
\* valid coordinates stand in the order they had in the input.
C15_InvalidCoordinatesKeepTheirOrder ==
    sortedByDistance =>
        SelectSeq(sortOutput, LAMBDA c : ~HasValidCoordinates(c))
        = SelectSeq(sortInput, LAMBDA c : ~HasValidCoordinates(c))

\* the sequences hold the same elements the same number of times
C26_IsPermutation(s, t) ==
    /\ Len(s) = Len(t)
    /\ \A x \in Range(s) \cup Range(t) :
          Cardinality({i \in DOMAIN s : s[i] = x}) = Cardinality({i \in DOMAIN t : t[i] = x})

\* C26: sortCandidates raises no error for any candidate list, sort field and
\* direction, candidates without location sorted by distance without a
\* reference location included, and returns a permutation of its input.
C26_SortNeverRaises ==
    pc = "sorted" =>
        /\ sortError = ""
        /\ C26_IsPermutation(sortOutput, sortInput)

(***************************************************************************)
(* Experience levels: the claim                                            *)
(***************************************************************************)
\* C16: categorizeExperience gives every non-negative integer number of
\* months exactly one level: 0 "No Experience", 1..11 "Less than 1 year",
\* 12..35 "1-3 years", 36..59 "3-5 years", 60 and above "5+ years".
C16_ExperienceBuckets ==
    pc = "categorized" =>
        /\ experienceMonths = 0 <=> experienceLevel = "No Experience"
        /\ experienceMonths \in 1..11 <=> experienceLevel = "Less than 1 year"
        /\ experienceMonths \in 12..35 <=> experienceLevel = "1-3 years"
        /\ experienceMonths \in 36..59 <=> experienceLevel = "3-5 years"
        /\ experienceMonths >= 60 <=> experienceLevel = "5+ years"

\* C16 witness: twelve months were categorized, the first value of the
\* third bucket
C16_Witness ==
    /\ pc = "categorized"
    /\ experienceMonths = 12
    /\ experienceLevel = "1-3 years"

(***************************************************************************)
(* Claims about the loading of the dashboard                               *)
(***************************************************************************)
\* the members of a group of the Grouped Skills Map
GroupMembers(entry) == {entry.value[i] : i \in DOMAIN entry.value}

\* the representatives: the values of the Skill Normalization Map
Representatives ==
    {originalToNormalizedMap[i].value : i \in DOMAIN originalToNormalizedMap}

\* C17: after a load, from the network or from the cache, the Grouped Skills
\* Map is the exact inverse of the Skill Normalization Map: its keys are
\* exactly the representatives, every group is non-empty and holds its
\* representative, every member of a group is normalized to the key of the
\* group, the groups are pairwise disjoint, and the union of the groups is the
\* key set of the normalization map.
C17_GroupedMapIsInverse ==
    isCacheLoaded =>
        /\ MapKeys(groupedSkillsMap) = Representatives
        /\ \A i \in DOMAIN groupedSkillsMap :
              LET entry == groupedSkillsMap[i] IN
              /\ entry.value # <<>>
              /\ entry.key \in GroupMembers(entry)
              /\ \A skill \in GroupMembers(entry) :
                    /\ MapHas(originalToNormalizedMap, skill)
                    /\ MapGet(originalToNormalizedMap, skill) = entry.key
              /\ \A j \in DOMAIN groupedSkillsMap :
                    i # j => GroupMembers(entry) \cap GroupMembers(groupedSkillsMap[j]) = {}
        /\ UNION {GroupMembers(groupedSkillsMap[i]) : i \in DOMAIN groupedSkillsMap}
             = MapKeys(originalToNormalizedMap)

\* C17 witness: a load from the cache, after a load from the network, gave
\* two groups, one of them with several variants.
C17_Witness ==
    /\ isCacheLoaded
    /\ Len(loadedFrom) >= 2
    /\ loadedFrom[Len(loadedFrom)] = "cache"
    /\ Len(groupedSkillsMap) >= 2
    /\ \E i \in DOMAIN groupedSkillsMap : Len(groupedSkillsMap[i].value) >= 3

\* a Map as a mapping: its entries without their order
C19_Entries(m) == Range(m)

\* the groups of a Grouped Skills Map, each as the set of its variants
C19_Groups(m) == {[key |-> m[i].key, value |-> Range(m[i].value)] : i \in DOMAIN m}

\* the dashboard state after the step is the one that a fetch and the
\* computation from the candidate data give
C19_StateIsFreshOf(data) ==
    /\ candidates' = data
    /\ C19_Entries(originalToNormalizedMap') = C19_Entries(createSkillNormalizationMapping(data))
    /\ C19_Groups(groupedSkillsMap')
         = C19_Groups(normalizedToGroupMap(createSkillNormalizationMapping(data)))
    /\ skillsList' = uniqueNormalizedSkills(createSkillNormalizationMapping(data))
    /\ locationsList' = getUniqueLocations(data)
    /\ C19_Entries(skillCounts') = C19_Entries(calculateSkillCounts(data))

\* the cached timestamp is less than 24 hours old and the five cached
\* entries are present
C19_CacheIsValid ==
    /\ localStorage["CACHED_TIMESTAMP"] # None
    /\ now - localStorage["CACHED_TIMESTAMP"][1] < 24 * 60 * 60 * 1000
    /\ \A key \in {"CANDIDATES", "SKILL_MAPPING", "LOCATIONS", "SKILL_COUNTS",
                   "SKILLS_LIST"} : localStorage[key] # None

\* C19: loadData takes the cache path exactly when the timestamp is younger
\* than 24 hours and all five cached entries are present, and fetches the
\* data otherwise; on either path the dashboard state is the one that a fresh
\* fetch-and-compute of the loaded candidate data produces: the same
\* candidates, skills list and locations list, and the same Skill
\* Normalization Map, Grouped Skills Map and skill counts as mappings.
C19_CacheLoadEqualsFreshLoad ==
    [][LoadData =>
          /\ loadedFrom' = Append(loadedFrom, IF C19_CacheIsValid THEN "cache" ELSE "fresh")
          /\ ~C19_CacheIsValid => candidates' = remoteData
          /\ C19_CacheIsValid => candidates' = localStorage["CANDIDATES"][1]
          /\ C19_StateIsFreshOf(candidates')]_vars


\* C29: when the fetch fails, fetchCandidatesData resolving to the empty
\* list, loadData records no valid cache: after the fresh load the storage
\* holds no cache that a load within 24 hours would take, so that load
\* fetches again instead of serving the empty list from the cache.
C29_FailedFetchIsNotCached ==
    [][LoadData /\ ~cacheUsable(localStorage, now) /\ remoteData = <<>>
          => \A delay \in {0, 1, CACHE_EXPIRATION - 1} :
                ~cacheUsable(localStorage', now + delay)]_vars
(***************************************************************************)
(* Claims about the filter effect of the dashboard                         *)
(***************************************************************************)
\* the filtered candidates with the score for the job requirement
C18_Rescored(req) ==
    LET filtered == filterCandidates(normalizedCandidatesOf(candidates,
                                                            originalToNormalizedMap),
                                     filters)
    IN  [i \in DOMAIN filtered |->
            [filtered[i] EXCEPT !.computed =
                Some([@[1] EXCEPT !.score =
                         calculateTotalCandidateScore(filtered[i], req)])]]

C23_VariantsOf(representative) ==
    IF MapHas(groupedSkillsMap, representative)
    THEN Range(MapGet(groupedSkillsMap, representative))
    ELSE {}

\* no criterion but the skills is set
C23_OnlySkillsSet ==
    /\ filters.search = <<>>
    /\ filters.location = <<>>
    /\ filters.experience = <<>>
    /\ filters.employmentStatus = <<>>

\* C23: in the dashboard pipeline, when the skills filter contains a
\* representative R, every error-free candidate with a raw variant of R's
\* group among its work-experience or project skills passes the skills
\* filter, because the filter sees the candidate with its skills replaced by
\* their representatives: once the debounce has fired the candidate is
\* displayed unless another criterion drops it.
C23_VariantsPassTheSkillsFilter ==
    isCacheLoaded =>
        \A i \in DOMAIN candidates : \A r \in DOMAIN filters.skills :
            (/\ ~hasError(candidates[i])
             /\ Range(SkillsOf(candidates[i])) \cap C23_VariantsOf(filters.skills[r]) # {})
            => /\ matchesSkills(normalizedCandidatesOf(candidates,
                                                       originalToNormalizedMap)[i],
                                filters.skills)
               /\ (timers = <<>> /\ C23_OnlySkillsSet) =>
                     \E d \in DOMAIN filteredCandidates :
                         filteredCandidates[d].name = candidates[i].name

\* C23 witness: the filter holds a representative, and a displayed candidate
\* has none of its raw skills equal to it, only a variant.
C23_Witness ==
    /\ isCacheLoaded
    /\ timers = <<>>
    /\ filters.skills # <<>>
    /\ \E i \in DOMAIN candidates :
          /\ Range(SkillsOf(candidates[i])) \cap Range(filters.skills) = {}
          /\ Range(SkillsOf(candidates[i])) \cap C23_VariantsOf(filters.skills[1]) # {}
          /\ \E d \in DOMAIN filteredCandidates :
                filteredCandidates[d].name = candidates[i].name
    /\ Len(filteredCandidates) < Len(candidates)

(***************************************************************************)
(* Claims about the greedy clustering                                      *)
(***************************************************************************)
\* the place where a skill occurs first in the input, 0 for a stranger
C20_FirstIndex(skill) ==
    IF \E i \in DOMAIN skillList : skillList[i] = skill
    THEN CHOOSE i \in DOMAIN skillList :
            skillList[i] = skill /\ \A k \in 1..(i - 1) : skillList[k] # skill
    ELSE 0

\* the groups that exist when the skill at place i is taken
C20_Existing(i) == {j \in DOMAIN clusters : C20_FirstIndex(clusters[j].key) < i}

\* the existing groups whose key has similarity >= threshold with the skill
C20_Matching(i) ==
    {j \in C20_Existing(i) :
        SurdGeq(getSkillSimilarityScore(skillList[i], clusters[j].key), threshold)}

\* the group that the skill at place i belongs to by the rule: the first
\* matching group, else the group keyed by the skill (0 without one)
C20_Target(i) ==
    IF C20_Matching(i) # {}
    THEN CHOOSE j \in C20_Matching(i) : \A y \in C20_Matching(i) : j <= y
    ELSE IF \E j \in DOMAIN clusters : clusters[j].key = skillList[i]
    THEN CHOOSE j \in DOMAIN clusters : clusters[j].key = skillList[i]
    ELSE 0

\* the skills of the input that the rule sends to group j, in input order
C20_Joined(j) ==
    LET places == {i \in DOMAIN skillList : C20_Target(i) = j}
    IN  [n \in 1..Cardinality(places) |->
            skillList[CHOOSE i \in places : Cardinality({k \in places : k <= i}) = n]]

\* C20: groupSimilarSkills is greedy first-match against group keys: the keys
\* are skills of the input in the order of their creation; each skill, taken
\* in input order, joins the first group in creation order whose key has
\* similarity >= threshold with it, whatever the other members are; a group
\* keyed by the skill is created at the skill's place exactly when every key
\* that exists then has similarity < threshold.
C20_GreedyFirstMatchOnKeys ==
    pc = "grouped" =>
        /\ \A j \in DOMAIN clusters : C20_FirstIndex(clusters[j].key) > 0
        /\ \A j1, j2 \in DOMAIN clusters :
              j1 < j2 => C20_FirstIndex(clusters[j1].key) < C20_FirstIndex(clusters[j2].key)
        /\ \A i \in DOMAIN skillList :
              (C20_Matching(i) = {})
                <=> (\E j \in DOMAIN clusters :
                        clusters[j].key = skillList[i] /\ C20_FirstIndex(clusters[j].key) = i)
        /\ \A j \in DOMAIN clusters :
              /\ clusters[j].value = C20_Joined(j)
              /\ clusters[j].value[1] = clusters[j].key

\* C20 witness: one skill had two matching groups and joined the first, and
\* another skill started a group although a member that is not a key of an
\* earlier group is similar to it.
C20_Witness ==
    /\ pc = "grouped"
    /\ \E i \in DOMAIN skillList :
          /\ Cardinality(C20_Matching(i)) >= 2
          /\ \E n \in DOMAIN clusters[C20_Target(i)].value :
                n > 1 /\ clusters[C20_Target(i)].value[n] = skillList[i]
    /\ \E i \in DOMAIN skillList :
          /\ C20_Matching(i) = {}
          /\ \E j \in C20_Existing(i) : \E n \in 2..Len(clusters[j].value) :
                /\ clusters[j].value[n] \in {skillList[k] : k \in 1..(i - 1)}
                /\ SurdGeq(getSkillSimilarityScore(skillList[i], clusters[j].value[n]),
                           threshold)

(***************************************************************************)
(* Claims about the substring rule, the representatives and the order of   *)
(* the clustering                                                          *)
(***************************************************************************)
\* the normalized strings differ and one is a substring of the other
C21_SubstringPair(a, b) ==
    /\ preprocessText(a) # preprocessText(b)
    /\ \/ includes(preprocessText(a), preprocessText(b))
       \/ includes(preprocessText(b), preprocessText(a))

\* the groups that hold the skill
C21_GroupsOf(skill) ==
    {j \in DOMAIN clusters : skill \in Range(clusters[j].value)}

\* C21 as stated: the similarity of a substring pair is exactly 0.9, so is
\* that of "React" and "ReactJS", and at the default threshold 0.8 the two
\* skills of such a pair are in one group when one of them is a group key.
C21_SubstringPairsClusterTogether ==
    (pc = "grouped" /\ threshold = defaultSimilarityThreshold) =>
        /\ getSkillSimilarityScore(<<"R","e","a","c","t">>, <<"R","e","a","c","t","J","S">>)
             = Exact(Rat(9, 10))
        /\ \A a, b \in Range(skillList) :
              C21_SubstringPair(a, b) =>
                 /\ getSkillSimilarityScore(a, b) = Exact(Rat(9, 10))
                 /\ a \in MapKeys(clusters) => C21_GroupsOf(a) \cap C21_GroupsOf(b) # {}

\* C21 amended: the similarity of a substring pair is exactly 0.9, so is that
\* of "React" and "ReactJS", and at the default threshold 0.8 a skill that
\* forms such a pair with a group key is a member, not a key: it is in the
\* group of that key or in a group created earlier whose key also has
\* similarity >= 0.8 with it.
C21_SubstringPairsJoinFirstMatch ==
    (pc = "grouped" /\ threshold = defaultSimilarityThreshold) =>
        /\ getSkillSimilarityScore(<<"R","e","a","c","t">>, <<"R","e","a","c","t","J","S">>)
             = Exact(Rat(9, 10))
        /\ \A a, b \in Range(skillList) :
              C21_SubstringPair(a, b) =>
                 /\ getSkillSimilarityScore(a, b) = Exact(Rat(9, 10))
                 /\ \A j \in DOMAIN clusters :
                       clusters[j].key = a =>
                          /\ b \notin MapKeys(clusters)
                          /\ \E k \in 1..j :
                                /\ C21_GroupsOf(b) = {k}
                                /\ SurdGeq(getSkillSimilarityScore(b, clusters[k].key),
                                           threshold)

\* C21 witness: "ReactJS" joined the group of "JS" although "React" is a key
\* too, and another substring pair shares the group of its key.
C21_Witness ==
    /\ pc = "grouped"
    /\ threshold = defaultSimilarityThreshold
    /\ \E a, b \in Range(skillList) :
          /\ C21_SubstringPair(a, b)
          /\ a \in MapKeys(clusters)
          /\ C21_GroupsOf(a) \cap C21_GroupsOf(b) = {}
    /\ \E a, b \in Range(skillList) :
          /\ C21_SubstringPair(a, b)
          /\ a \in MapKeys(clusters)
          /\ C21_GroupsOf(a) = C21_GroupsOf(b)

\* abbreviation-like: shorter than 4 characters and equal to its upper-casing
C22_AbbreviationLike(skill) == Len(skill) < 4 /\ toUpperCase(skill) = skill

\* the member that the rule of the claim picks
C22_Preferred(members) ==
    LET full == {i \in DOMAIN members : ~C22_AbbreviationLike(members[i])}
        pool == IF full # {} THEN full ELSE DOMAIN members
        shortest == {i \in pool : \A k \in pool : Len(members[i]) <= Len(members[k])}
    IN  members[CHOOSE i \in shortest : \A k \in shortest : i <= k]

\* the groups that createSkillNormalizationMapping hands to
\* getRepresentativeSkills
C22_Groups == groupSimilarSkills(extractAllSkills(candidates), defaultSimilarityThreshold)

\* C22: for every group, the representative that getRepresentativeSkills
\* gives to the members is a member of the group: the shortest member that is
\* not abbreviation-like when there is one, otherwise the shortest member,
\* and among members of equal length the earliest in the group.
C22_RepresentativeIsPreferredMember ==
    pc = "mapped" =>
        \A g \in DOMAIN C22_Groups :
            LET members == C22_Groups[g].value
            IN  /\ C22_Preferred(members) \in Range(members)
                /\ \A i \in DOMAIN members :
                      /\ MapHas(originalToNormalizedMap, members[i])
                      /\ MapGet(originalToNormalizedMap, members[i]) = C22_Preferred(members)

\* C22 witness: a group whose shortest member is abbreviation-like and not
\* chosen, and a group where a later member is as short as the chosen one
C22_Witness ==
    /\ pc = "mapped"
    /\ \E g \in DOMAIN C22_Groups :
          LET members == C22_Groups[g].value
          IN  \E i \in DOMAIN members :
                 /\ C22_AbbreviationLike(members[i])
                 /\ Len(members[i]) < Len(C22_Preferred(members))
    /\ \E g \in DOMAIN C22_Groups :
          LET members == C22_Groups[g].value
          IN  \E i, k \in DOMAIN members :
                 /\ i < k
                 /\ members[i] = C22_Preferred(members)
                 /\ Len(members[k]) = Len(members[i])
                 /\ ~C22_AbbreviationLike(members[k])

\* a grouping as a partition: the set of the groups' member sets
C25_Partition(groups) == {Range(groups[j].value) : j \in DOMAIN groups}

C25_Skills == { <<"J","S">>, <<"R","e","a","c","t">>, <<"R","e","a","c","t","J","S">> }

\* C25: clustering is order-dependent.  For the skills "JS", "React" and
\* "ReactJS" at the threshold 0.8 the order decides the partition: with
\* "ReactJS" first the three are one group, otherwise "ReactJS" shares the
\* group of the skill that comes first and the third skill is alone; so the
\* list and its permutations yield different partitions of the same skills.
C25_OrderDecidesTheGroups ==
    (/\ pc = "grouped"
     /\ threshold = defaultSimilarityThreshold
     /\ Len(skillList) = 3
     /\ Range(skillList) = C25_Skills)
    => /\ C25_Partition(clusters)
            = IF skillList[1] = <<"R","e","a","c","t","J","S">>
              THEN {C25_Skills}
              ELSE {{skillList[1], <<"R","e","a","c","t","J","S">>},
                    C25_Skills \ {skillList[1], <<"R","e","a","c","t","J","S">>}}
       /\ \E other \in [1..3 -> C25_Skills] :
             /\ Range(other) = C25_Skills
             /\ C25_Partition(groupSimilarSkills(other, threshold))
                  # C25_Partition(clusters)

\* C25 witness: the list "JS", "React", "ReactJS" was grouped, and the list
\* with the first two skills swapped gives another partition.
C25_Witness ==
    /\ pc = "grouped"
    /\ threshold = defaultSimilarityThreshold
    /\ skillList = << <<"J","S">>, <<"R","e","a","c","t">>, <<"R","e","a","c","t","J","S">> >>
    /\ C25_Partition(clusters) = {{skillList[1], skillList[3]}, {skillList[2]}}
    /\ C25_Partition(groupSimilarSkills(<<skillList[2], skillList[1], skillList[3]>>,
                                        threshold))
         = {{skillList[2], skillList[3]}, {skillList[1]}}

(***************************************************************************)
(* Claims about the filter panel                                           *)
(***************************************************************************)
\* C27: after the user has cleared the search, with the X button or with
\* Clear All, and has given no further input, the search term of the applied
\* filter is empty and stays empty: the debounce effect does not apply the
\* search term that was debounced before.
C27_ClearedSearchStaysEmpty ==
    lastInput = "clear" => filters.search = <<>>

\* the applied filter without its job requirement
C28_OtherFields(f) == [f EXCEPT !.jobRequirement = <<>>]

\* C28: applying a job requirement changes the jobRequirement field of the
\* applied filter only: what the user has applied to search, experience,
\* skills, location or employment status during the 100 ms between the click
\* and the commit is still there after the commit, the filters of the click
\* do not overwrite it.
C28_ApplyChangesTheRequirementOnly ==
    [][ApplyJobRequirementFires
          => C28_OtherFields(filters') = C28_OtherFields(filters)]_vars
(***************************************************************************)
(* Claims about the pagination of the dashboard                            *)
(***************************************************************************)
\* the positions (currentPage-1)*itemsPerPage up to currentPage*itemsPerPage
\* of the list, the first of them excluded, as far as the list goes
C30_PositionsOfPage(list) ==
    {i \in DOMAIN list :
        /\ i > (pagination.currentPage - 1) * pagination.itemsPerPage
        /\ i <= pagination.currentPage * pagination.itemsPerPage}

\* the least number of pages of itemsPerPage candidates that hold count
\* candidates
C30_Ceil(count) ==
    CHOOSE n \in 0..count :
        /\ n * pagination.itemsPerPage >= count
        /\ \A m \in 0..count : m * pagination.itemsPerPage >= count => m >= n

\* the page is consistent with the filtered list
C30_PageIsConsistent ==
    isCacheLoaded =>
        /\ pagination.totalPages = C30_Ceil(Len(filteredCandidates))
        /\ 1 <= pagination.currentPage
        /\ pagination.currentPage
             <= (IF pagination.totalPages > 1 THEN pagination.totalPages ELSE 1)
        /\ Len(paginatedCandidates) = Cardinality(C30_PositionsOfPage(filteredCandidates))
        /\ \A k \in DOMAIN paginatedCandidates :
              paginatedCandidates[k]
                = filteredCandidates[(pagination.currentPage - 1) * pagination.itemsPerPage + k]

C24_ResponsibilityWords ==
    UNION { UNION { Range(LongWords(exp.responsibilities[1][r])) :
                       r \in DOMAIN OrEmpty(exp.responsibilities) }
            : exp \in Range(OrEmpty(candidate.work_experience)) }

\* the words of the candidate outside the responsibilities
C24_OtherWords ==
    UNION { Range(ExperienceWords(exp, FALSE)) :
               exp \in Range(OrEmpty(candidate.work_experience)) }
    \cup UNION { Range(ProjectWords(project)) :
                    project \in Range(OrEmpty(candidate.projects)) }

\* C24: the document that calculateJobRequirementMatchScore scores against
\* holds the responsibility words longer than 3 characters, so a requirement
\* term that occurs only in the responsibilities of the candidate has a
\* term frequency above 0 and a TF-IDF above 0, which adds a positive
\* partial-match score.
C24_ResponsibilityTermsScore ==
    (/\ pc = "tfidf"
     /\ tfTerm \in C24_ResponsibilityWords
     /\ tfTerm \notin C24_OtherWords
     /\ ~exactSkillMatch(candidate, tfTerm))
    => /\ IsNum(tf) /\ tf.n > 0
       /\ IsNum(tfidf) /\ tfidf.n > 0

====
